---- MODULE Spec2Model ----
(***************************************************************************)
(* A model of the bus1 node/handle lifecycle and of the per-peer ordered   *)
(* message queue (ipc/bus1/queue.c, ipc/bus1/handle.c).                    *)
(*                                                                         *)
(* The queue part models one struct bus1_queue.  The rb-tree               *)
(* queue->messages is modelled by its in-order traversal (a sequence of    *)
(* entries): the tree is only ever walked in order (rb_next) or searched   *)
(* by key, so the balancing is not observable.                             *)
(*                                                                         *)
(* The handle part models the handles, nodes and peers of handle.c and a   *)
(* bounded number of concurrent calls into it.  Every step of a call is    *)
(* one critical section (mutex_lock .. mutex_unlock of one peer) or one    *)
(* run of lockless atomic operations; handle.c never holds two peer locks  *)
(* at once, so the critical sections of one peer are serialised by the     *)
(* interleaving of the steps.                                              *)
(***************************************************************************)
EXTENDS Integers, Sequences, FiniteSets, TLC

NULL == 0

(* ------------------------------------------------------------------ *)
(* Bounds                                                               *)
(* ------------------------------------------------------------------ *)
NEntries == 2
MaxSeq == 4
NPeers == 2
NHandles == 3
MaxOps == 3
MaxCalls == 4
NThreads == 2
NUsers == 2
NQuotaPeers == 2
MaxBudget == 4
MaxCharges == 2
MaxRounds == 1
MaxDrained == 1
MaxLockCalls == 2
MaxDests == 2
MaxDestroys == 2
NUids == 2
NUserObjs == 3
MaxUserCalls == 2

Entries == 1..NEntries
Seqs == 1..MaxSeq
Peers == 1..NPeers
Handles == 1..NHandles
Ops == 1..MaxCalls
Users == 1..NUsers
QuotaPeers == 1..NQuotaPeers

VARIABLES
    q_seq,      \* entry->seq of every allocated entry, 0: entry not allocated
    messages,   \* queue->messages, in order (leftmost first)
    front,      \* queue->front, NULL or an entry
    q_oops,     \* TRUE once the kernel dereferenced a NULL pointer
    q_warned,   \* TRUE once WARN_ON(queue->front) of bus1_queue_link() fired
    q_last,     \* the last queue call: what it was given, found and returned
    q_order,    \* the linked entries in the order they were linked
    q_deq       \* the last two entries dequeued (peek + unlink) in a row

VARIABLES
    hd,         \* struct bus1_handle of every handle slot
    nd,         \* struct bus1_handle_node of every node (node n embeds owner handle n)
    pr,         \* struct bus1_peer_info of every peer: the lookup trees, the id counter
    ops,        \* the calls in progress: position and local variables of each
    warns,      \* the WARN_ON()s and kernel faults that fired so far
    sched,      \* the callers: how many calls they make, how many at a time
    h_last      \* what the step just taken returned or reported to its caller

VARIABLES
    u_global,   \* struct bus1_user of every user: the remaining global budgets
    u_local,    \* struct bus1_peer_info: the remaining budgets of the peer
    u_stats,    \* peer_info->quota.stats[user]: what every user has in flight
    u_charges,  \* the charges that are neither discharged nor committed yet
    u_last      \* the last quota call: what it was given and what it returned

VARIABLES
    lock,       \* peer_info->lock of every peer: the thread that holds it, or NULL
    thr         \* every thread: the lock and unlock calls its call still makes

VARIABLES
    bus1_user_idr,  \* the entries of the idr: pairs of a uid and a user object
    users,          \* struct bus1_user of every object slot
    callers         \* every thread: its position in user.c, its local variables
                    \* and the reference it holds

qvars == <<q_seq, messages, front, q_oops, q_warned, q_last, q_order, q_deq>>

hvars == <<hd, nd, pr, ops, warns, sched, h_last>>

uvars == <<u_global, u_local, u_stats, u_charges, u_last>>

lvars == <<lock, thr>>

rvars == <<bus1_user_idr, users, callers>>

vars == <<q_seq, messages, front, q_oops, q_warned, q_last, q_order, q_deq,
          hd, nd, pr, ops, warns, sched, h_last,
          u_global, u_local, u_stats, u_charges, u_last, lock, thr,
          bus1_user_idr, users, callers>>

(* ------------------------------------------------------------------ *)
(* Sequence helpers                                                     *)
(* ------------------------------------------------------------------ *)
Range(s) == {s[i] : i \in DOMAIN s}

IndexOf(s, x) == CHOOSE i \in DOMAIN s : s[i] = x

RemoveAt(s, i) == SubSeq(s, 1, i - 1) \o SubSeq(s, i + 1, Len(s))

Remove(s, x) == IF x \in Range(s) THEN RemoveAt(s, IndexOf(s, x)) ELSE s

InsertAt(s, i, x) == SubSeq(s, 1, i - 1) \o <<x>> \o SubSeq(s, i, Len(s))

LastOf(s) == IF s = <<>> THEN <<>> ELSE <<s[Len(s)]>>

(* ------------------------------------------------------------------ *)
(* Queue: pure helpers                                                  *)
(* ------------------------------------------------------------------ *)

\* !RB_EMPTY_NODE(&entry->rb)
IsLinked(msgs, e) == e \in Range(msgs)

\* (seq & 1): a staging entry
IsStaging(s) == s % 2 = 1

\* rb_next(): the in-order successor, NULL if there is none
rb_next(msgs, e) ==
    LET i == IndexOf(msgs, e)
    IN  IF i < Len(msgs) THEN msgs[i + 1] ELSE NULL

\* rb_first(): the leftmost entry, NULL on an empty tree
rb_first(msgs) == IF Len(msgs) > 0 THEN msgs[1] ELSE NULL

\* Faulty variant: ties descend to the left
LinkSlot_TiesLeft(msgs, seqf, s) ==
    Cardinality({i \in DOMAIN msgs : seqf[msgs[i]] < s}) + 1

\* The descent of bus1_queue_link(): left iff entry->seq < iter->seq, right
\* otherwise, so the entry lands behind every entry with a seq <= its own.
LinkSlot(msgs, seqf, s) ==
    Cardinality({i \in DOMAIN msgs : seqf[msgs[i]] <= s}) + 1

\* Faulty variant: a leftmost entry becomes the front whatever its seq
LinkFront_AnySeq(is_leftmost, even, e, fr) ==
    IF is_leftmost THEN e ELSE fr

\* bus1_queue_link(), lines 103-107: queue->front after the insertion
LinkFront(is_leftmost, even, e, fr) ==
    IF is_leftmost /\ even THEN e ELSE fr

\* Faulty variant: every committed entry reports the queue readable
LinkReturn_AnySlot(is_leftmost, even) == even

\* bus1_queue_link(), line 115: the value returned
LinkReturn(is_leftmost, even) == is_leftmost /\ even

\* bus1_queue_link() on (msgs, fr): the new tree, the new front, the value
\* returned, and whether WARN_ON(queue->front) fired.  seqf gives entry->seq.
LinkResult(msgs, fr, seqf, e) ==
    LET slot == LinkSlot(msgs, seqf, seqf[e])
        is_leftmost == slot = 1
        even == ~IsStaging(seqf[e])
    IN  [messages |-> InsertAt(msgs, slot, e),
         front    |-> LinkFront(is_leftmost, even, e, fr),
         ret      |-> LinkReturn(is_leftmost, even),
         warn     |-> is_leftmost /\ fr # NULL]

\* Faulty variant: the front moves to the successor whatever its seq
UnlinkNode_AnySeq(next, seqf) == next

\* bus1_queue_unlink(), lines 144-146: the front moves to the successor of
\* the unlinked front unless that successor is staging (or missing)
UnlinkNode(next, seqf) ==
    IF next # NULL /\ ~IsStaging(seqf[next]) THEN next ELSE NULL

\* bus1_queue_peek()
bus1_queue_peek == front

(* ------------------------------------------------------------------ *)
(* Queue: what a call leaves in q_last                                  *)
(* ------------------------------------------------------------------ *)
NoCall == [op |-> "none", entry |-> NULL, ret |-> FALSE, warn |-> FALSE,
           front |-> NULL, first |-> NULL, next |-> NULL, seq |-> 0]

\* op: the function; entry: its argument; ret: what it returned; warn:
\* whether a WARN_ON fired in it; front, first: queue->front and the
\* leftmost entry before the call; next: the in-order successor of entry
\* before the call; seq: entry->seq before it.
Call(op, e, ret, warn) ==
    [op |-> op, entry |-> e, ret |-> ret, warn |-> warn,
     front |-> front, first |-> rb_first(messages),
     next |-> IF IsLinked(messages, e) THEN rb_next(messages, e) ELSE NULL,
     seq |-> IF e = NULL THEN 0 ELSE q_seq[e]]

(* ------------------------------------------------------------------ *)
(* Queue: actions                                                       *)
(* ------------------------------------------------------------------ *)
QInit ==
    /\ q_seq = [e \in Entries |-> 0]
    /\ messages = <<>>
    /\ front = NULL
    /\ q_oops = FALSE
    /\ q_warned = FALSE
    /\ q_last = NoCall
    /\ q_order = <<>>
    /\ q_deq = <<>>

\* bus1_queue_entry_new(seq, n_files): seq == 0 is refused
bus1_queue_entry_new(e, seq) ==
    /\ ~q_oops
    /\ q_seq[e] = 0
    /\ seq # 0
    /\ q_seq' = [q_seq EXCEPT ![e] = seq]
    /\ UNCHANGED <<messages, front, q_oops, q_warned, q_last, q_order, q_deq>>
    /\ UNCHANGED <<hvars, uvars, lvars, rvars>>

\* bus1_queue_entry_free(): the caller unlinked the entry before
bus1_queue_entry_free(e) ==
    /\ ~q_oops
    /\ q_seq[e] # 0
    /\ ~IsLinked(messages, e)
    /\ q_seq' = [q_seq EXCEPT ![e] = 0]
    /\ UNCHANGED <<messages, front, q_oops, q_warned, q_last, q_order, q_deq>>
    /\ UNCHANGED <<hvars, uvars, lvars, rvars>>

\* bus1_queue_link(queue, entry), entry unlinked
bus1_queue_link(e) ==
    /\ ~q_oops
    /\ q_seq[e] # 0
    /\ ~IsLinked(messages, e)
    /\ LET r == LinkResult(messages, front, q_seq, e)
       IN  /\ messages' = r.messages
           /\ front' = r.front
           /\ q_last' = Call("link", e, r.ret, r.warn)
           /\ q_warned' = (q_warned \/ r.warn)
    /\ q_order' = Append(q_order, e)
    /\ q_deq' = <<>>
    /\ UNCHANGED <<q_seq, q_oops>>
    /\ UNCHANGED <<hvars, uvars, lvars, rvars>>

\* bus1_queue_unlink(queue, entry), entry linked.  When entry is the front
\* and has no successor, rb_next() returns NULL and line 145 reads
\* bus1_queue_entry(NULL)->seq: either the kernel oopses there (the call
\* never returns, nothing was written yet), or the load yields some value
\* and the call goes on with node == NULL.
bus1_queue_unlink(e) ==
    /\ ~q_oops
    /\ IsLinked(messages, e)
    /\ LET next == rb_next(messages, e)
           isfront == front = e
       IN  \E fault \in BOOLEAN :
             /\ fault => (isfront /\ next = NULL)
             /\ IF fault
                THEN /\ q_oops' = TRUE
                     /\ q_last' = Call("unlink", e, FALSE, FALSE)
                     /\ UNCHANGED <<messages, front, q_order, q_deq>>
                ELSE LET node == IF isfront THEN UnlinkNode(next, q_seq)
                                 ELSE NULL
                     IN  /\ front' = IF isfront THEN node ELSE front
                         /\ messages' = Remove(messages, e)
                         /\ q_last' = Call("unlink", e,
                                IsStaging(q_seq[e]) /\ node # NULL
                                /\ ~IsStaging(q_seq[node]), FALSE)
                         /\ q_order' = Remove(q_order, e)
                         /\ q_deq' =
                              IF isfront
                              THEN LastOf(q_deq) \o
                                   <<[entry |-> e, seq |-> q_seq[e],
                                      before |-> {q_order[i] : i \in
                                                  1..(IndexOf(q_order, e) - 1)}]>>
                              ELSE <<>>
                         /\ UNCHANGED q_oops
    /\ UNCHANGED <<q_seq, q_warned>>
    /\ UNCHANGED <<hvars, uvars, lvars, rvars>>

\* bus1_queue_relink(queue, entry, seq), entry linked and staging, seq != 0
bus1_queue_relink(e, seq) ==
    /\ ~q_oops
    /\ seq # 0
    /\ IsLinked(messages, e)
    /\ IsStaging(q_seq[e])
    /\ LET oldfront == front
           seqf == [q_seq EXCEPT ![e] = seq]
           r == LinkResult(Remove(messages, e), front, seqf, e)
       IN  /\ messages' = r.messages
           /\ front' = r.front
           /\ q_seq' = seqf
           /\ q_last' = Call("relink", e, oldfront = NULL /\ r.front # NULL, r.warn)
           /\ q_warned' = (q_warned \/ r.warn)
    /\ q_order' = Append(Remove(q_order, e), e)
    /\ q_deq' = <<>>
    /\ UNCHANGED q_oops
    /\ UNCHANGED <<hvars, uvars, lvars, rvars>>

\* bus1_queue_flush(queue, pool): every entry is unlinked and freed
bus1_queue_flush ==
    /\ ~q_oops
    /\ messages # <<>>
    /\ front' = NULL
    /\ messages' = <<>>
    /\ q_seq' = [e \in Entries |-> IF IsLinked(messages, e) THEN 0 ELSE q_seq[e]]
    /\ q_last' = Call("flush", NULL, FALSE, FALSE)
    /\ q_order' = <<>>
    /\ q_deq' = <<>>
    /\ UNCHANGED <<q_oops, q_warned>>
    /\ UNCHANGED <<hvars, uvars, lvars, rvars>>

QNext ==
    \/ \E e \in Entries, s \in Seqs : bus1_queue_entry_new(e, s)
    \/ \E e \in Entries : bus1_queue_entry_free(e)
    \/ \E e \in Entries : bus1_queue_link(e)
    \/ \E e \in Entries : bus1_queue_unlink(e)
    \/ \E e \in Entries, s \in Seqs : bus1_queue_relink(e, s)
    \/ bus1_queue_flush

\* The callers' discipline that WARN_ON(queue->front) of bus1_queue_link()
\* asserts: no entry is linked to the left of a readable front.
QOrderedNext == QNext /\ ~q_warned'

(* ------------------------------------------------------------------ *)
(* Users and quota                                                      *)
(* ------------------------------------------------------------------ *)

\* The resources a message is charged for
Resources == {"allocated", "messages", "handles", "fds"}

\* The resources with a per-user global budget; memory has none
GlobalResources == {"messages", "handles", "fds"}

\* bus1_user_new(): BUS1_MESSAGES_MAX, BUS1_HANDLES_MAX, BUS1_FDS_MAX
NewUser == [res \in GlobalResources |-> MaxBudget]

\* The budgets of a peer that nothing was charged on
NewPeerBudget == [res \in Resources |-> MaxBudget]

\* bus1_user_quota_query(): the zeroed statistics of a user
NewStats == [res \in Resources |-> 0]

\* bus1_atomic_sub_if_ge(global, sub, t): subtract sub if the value is at
\* least t; tells whether it did
bus1_atomic_sub_if_ge(global, sub, t) ==
    IF global >= t THEN [ok |-> TRUE, v |-> global - sub]
    ELSE [ok |-> FALSE, v |-> global]

\* Faulty variant: the local check leaves the caller's share out
bus1_user_quota_charge_one_NoShare(has_global, global, local, share, charge) ==
    IF local < charge \/ local - charge < charge
    THEN [ok |-> FALSE, v |-> global]
    ELSE IF has_global
    THEN bus1_atomic_sub_if_ge(global, charge, share + charge * 2)
    ELSE [ok |-> TRUE, v |-> global]

\* bus1_user_quota_charge_one(): whether the charge is admitted, and the
\* global counter afterwards (global is NULL for memory)
bus1_user_quota_charge_one(has_global, global, local, share, charge) ==
    IF local < charge \/ local - charge < share + charge
    THEN [ok |-> FALSE, v |-> global]
    ELSE IF has_global
    THEN bus1_atomic_sub_if_ge(global, charge, share + charge * 2)
    ELSE [ok |-> TRUE, v |-> global]

\* What one call of bus1_user_quota_charge_one() was given and returned
OneCall(res, global, local, share, charge, R) ==
    [res |-> res, has_global |-> res \in GlobalResources, global |-> global,
     local |-> local, share |-> share, charge |-> charge, ok |-> R.ok,
     after |-> R.v]

NoQuotaCall == [kind |-> "none", ok |-> FALSE, ones |-> <<>>]

UInit ==
    /\ u_global = [u \in Users |-> NewUser]
    /\ u_local = [p \in QuotaPeers |-> NewPeerBudget]
    /\ u_stats = [p \in QuotaPeers |-> [u \in Users |-> NewStats]]
    /\ u_charges = <<>>
    /\ u_last = NoQuotaCall

\* The amounts one message is charged for
Amounts(size, n_handles, n_fds) ==
    [allocated |-> size, messages |-> 1, handles |-> n_handles, fds |-> n_fds]

\* Faulty variant: error_handles does not give the handles back
ChargeError_KeepHandles(charged, n_handles, ok_a, ok_m, ok_h) ==
    IF ~ok_a \/ ~ok_m THEN charged
    ELSE [charged EXCEPT !["messages"] = @ + 1]

\* The error path of bus1_user_quota_charge(): the global counters of the
\* user when the call returns -EDQUOT. charged: the counters as the calls
\* of bus1_user_quota_charge_one() left them; ok_a, ok_m, ok_h: whether the
\* charge of memory, of the message and of the handles succeeded
ChargeError(charged, n_handles, ok_a, ok_m, ok_h) ==
    IF ~ok_a \/ ~ok_m
    THEN \* return r, or error_allocated
         charged
    ELSE IF ~ok_h
    THEN \* error_messages: atomic_inc(&user->n_messages)
         [charged EXCEPT !["messages"] = @ + 1]
    ELSE \* error_handles: atomic_add(n_handles, &user->n_handles), then
         \* error_messages
         [charged EXCEPT !["handles"] = @ + n_handles, !["messages"] = @ + 1]

\* bus1_user_quota_charge(peer_info, user, size, n_handles, n_fds)
bus1_user_quota_charge(p, u, size, n_handles, n_fds) ==
    LET c == Amounts(size, n_handles, n_fds)
        local == u_local[p]
        stats == u_stats[p][u]
        g == u_global[u]
        One(res, gv) ==
            bus1_user_quota_charge_one(res \in GlobalResources, gv,
                                       local[res], stats[res], c[res])
        Ra == One("allocated", 0)
        Rm == One("messages", g["messages"])
        Rh == One("handles", g["handles"])
        Rf == One("fds", g["fds"])
        Ca == OneCall("allocated", 0, local["allocated"], stats["allocated"], size, Ra)
        Cm == OneCall("messages", g["messages"], local["messages"],
                      stats["messages"], 1, Rm)
        Ch == OneCall("handles", g["handles"], local["handles"],
                      stats["handles"], n_handles, Rh)
        Cf == OneCall("fds", g["fds"], local["fds"], stats["fds"], n_fds, Rf)
        ok == Ra.ok /\ Rm.ok /\ Rh.ok /\ Rf.ok
        \* the global counters after the calls that were made
        charged == [messages |-> IF Ra.ok THEN Rm.v ELSE g["messages"],
                    handles |-> IF Ra.ok /\ Rm.ok THEN Rh.v ELSE g["handles"],
                    fds |-> IF Ra.ok /\ Rm.ok /\ Rh.ok THEN Rf.v ELSE g["fds"]]
        ones == IF ~Ra.ok THEN <<Ca>>
                ELSE IF ~Rm.ok THEN <<Ca, Cm>>
                ELSE IF ~Rh.ok THEN <<Ca, Cm, Ch>>
                ELSE <<Ca, Cm, Ch, Cf>>
    IN  /\ Len(u_charges) < MaxCharges
        /\ u_last' = [kind |-> "charge", ok |-> ok, ones |-> ones]
        /\ IF ok
           THEN /\ u_global' = [u_global EXCEPT ![u] = charged]
                /\ u_local' = [u_local EXCEPT ![p] =
                                  [res \in Resources |-> local[res] - c[res]]]
                /\ u_stats' = [u_stats EXCEPT ![p][u] =
                                  [res \in Resources |-> stats[res] + c[res]]]
                /\ u_charges' = Append(u_charges, [p |-> p, u |-> u, c |-> c])
           ELSE /\ u_global' = [u_global EXCEPT ![u] =
                                   ChargeError(charged, n_handles,
                                               Ra.ok, Rm.ok, Rh.ok)]
                /\ UNCHANGED <<u_local, u_stats, u_charges>>
    /\ UNCHANGED <<qvars, hvars, lvars, rvars>>

\* Faulty variant: the handles are not given back to the user
bus1_user_quota_discharge_KeepHandles(i) ==
    LET ch == u_charges[i]
        local == u_local[ch.p]
        stats == u_stats[ch.p][ch.u]
    IN  /\ u_local' = [u_local EXCEPT ![ch.p] =
                          [res \in Resources |-> local[res] + ch.c[res]]]
        /\ u_stats' = [u_stats EXCEPT ![ch.p][ch.u] =
                          [res \in Resources |-> stats[res] - ch.c[res]]]
        /\ u_global' = [u_global EXCEPT ![ch.u] =
                           [res \in GlobalResources |->
                               IF res = "handles" THEN @[res]
                               ELSE @[res] + ch.c[res]]]
        /\ u_charges' = RemoveAt(u_charges, i)
        /\ u_last' = [kind |-> "discharge", ok |-> TRUE, ones |-> <<>>]
    /\ UNCHANGED <<qvars, hvars, lvars, rvars>>

\* bus1_user_quota_discharge(): reverts the charge u_charges[i]
bus1_user_quota_discharge(i) ==
    LET ch == u_charges[i]
        local == u_local[ch.p]
        stats == u_stats[ch.p][ch.u]
    IN  /\ u_local' = [u_local EXCEPT ![ch.p] =
                          [res \in Resources |-> local[res] + ch.c[res]]]
        /\ u_stats' = [u_stats EXCEPT ![ch.p][ch.u] =
                          [res \in Resources |-> stats[res] - ch.c[res]]]
        /\ u_global' = [u_global EXCEPT ![ch.u] =
                           [res \in GlobalResources |-> @[res] + ch.c[res]]]
        /\ u_charges' = RemoveAt(u_charges, i)
        /\ u_last' = [kind |-> "discharge", ok |-> TRUE, ones |-> <<>>]
    /\ UNCHANGED <<qvars, hvars, lvars, rvars>>

\* bus1_user_quota_commit(): the receiver takes over the charge u_charges[i]
bus1_user_quota_commit(i) ==
    LET ch == u_charges[i]
        stats == u_stats[ch.p][ch.u]
    IN  /\ u_stats' = [u_stats EXCEPT ![ch.p][ch.u] =
                          [res \in Resources |-> stats[res] - ch.c[res]]]
        /\ u_global' = [u_global EXCEPT ![ch.u]["fds"] = @ + ch.c["fds"]]
        /\ u_charges' = RemoveAt(u_charges, i)
        /\ u_last' = [kind |-> "commit", ok |-> TRUE, ones |-> <<>>]
        /\ UNCHANGED u_local
    /\ UNCHANGED <<qvars, hvars, lvars, rvars>>

\* The messages that are charged: slice size, handles and fds carried
MessageChoices == {<<1, 0, 0>>, <<1, 1, 0>>, <<2, 2, 1>>, <<1, 1, 2>>}

UNext ==
    \/ \E p \in QuotaPeers, u \in Users, m \in MessageChoices :
          bus1_user_quota_charge(p, u, m[1], m[2], m[3])
    \/ \E i \in DOMAIN u_charges : bus1_user_quota_discharge(i)
    \/ \E i \in DOMAIN u_charges : bus1_user_quota_commit(i)

(* ------------------------------------------------------------------ *)
(* Handles: the objects                                                 *)
(* ------------------------------------------------------------------ *)
BUS1_HANDLE_INVALID == -1

BUS1_NODE_FLAG_MANAGED == 1

\* The bit of an id passed to a send that asks for a new node
BUS1_NODE_FLAG_ALLOCATE == 2

\* A slot of memory no handle lives in
FreeHandle ==
    [st |-> "free", node |-> NULL, id |-> BUS1_HANDLE_INVALID, holder |-> NULL,
     ref |-> 0, n_inflight |-> -1, n_user |-> 0, rb_node |-> FALSE]

\* A slot of memory no node lives in
FreeNode == [ref |-> 0, timestamp |-> 0, list_handles |-> <<>>]

\* The handle state of a peer that holds nothing
EmptyPeerInfo ==
    [map_handles_by_id |-> {}, map_handles_by_node |-> {}, handle_ids |-> 0,
     rb_root |-> NULL]      \* map_handles_by_id.rb_node, while the shape of
                            \* the tree follows from it

\* A step that neither returns to the caller of handle.c nor reports an id
NoReturn ==
    [kind |-> "none", r |-> "none",
     p |-> NULL,            \* the peer the call worked on
     id |-> 0,              \* the id it was given, or the id it reported
     h |-> NULL,            \* the handle it found or committed
     n |-> NULL,            \* the node of that handle
     own |-> 0,             \* handle->id when the id was reported
     seq |-> 0,             \* the sequence number of the commit
     ts |-> 0,              \* node->timestamp when the id was reported
     owned |-> {},          \* flush: the owner handles the peer had
     held |-> {},           \* flush: the other handles the peer had
     linked |-> FALSE,      \* a handle with that id was in the by-id tree of p
     dst_has |-> FALSE,     \* p had a handle of that node in its by-node tree
     fresh |-> FALSE,       \* the transaction had allocated a handle for p
     is_owner |-> FALSE,    \* the handle found was the owner of its node
     n_user |-> 0,          \* handle->n_user when the call started
     n_inflight |-> 0,      \* handle->n_inflight when the call started
     n_after |-> 0,         \* handle->n_inflight after bus1_handle_acquire()
     got |-> NULL,          \* the handle stored in the entry of the batch
     n_new |-> 0,           \* transfer->n_new when the call returned
     owner |-> NULL,        \* node->owner.holder when the call started
     list |-> <<>>,         \* node->list_handles when the step started
     ts_after |-> 0,        \* node->timestamp when the release returned
     unchanged |-> FALSE]   \* the step left handles, nodes and trees as they were

\* The shared memory the functions of handle.c work on
World == [hd |-> hd, nd |-> nd, pr |-> pr, warns |-> warns, last |-> NoReturn]

\* The step returns r from a call of kind on peer p given id, which found h
Ret(W, kind, r, p, id, h) ==
    [W EXCEPT !.last =
        [NoReturn EXCEPT !.kind = kind, !.r = r, !.p = p, !.id = id, !.h = h,
                       !.n = IF h = NULL THEN NULL ELSE hd[h].node,
                       !.ts = IF h = NULL THEN 0 ELSE nd[hd[h].node].timestamp,
                       !.linked = \E x \in pr[p].map_handles_by_id : hd[x].id = id,
                       !.is_owner = h # NULL /\ hd[h].node = h,
                       !.n_user = IF h = NULL THEN 0 ELSE hd[h].n_user]]

\* The step reports id for handle h to a transaction to peer p with sequence
\* number seq
Report(W, kind, p, id, h, seq) ==
    [W EXCEPT !.last =
        [NoReturn EXCEPT !.kind = kind, !.r = "0", !.p = p, !.id = id, !.h = h,
                       !.n = hd[h].node, !.own = hd[h].id, !.seq = seq,
                       !.ts = nd[hd[h].node].timestamp,
                       !.linked = h \in pr[p].map_handles_by_id,
                       !.dst_has = \E g \in pr[p].map_handles_by_node :
                                       hd[g].node = hd[h].node,
                       !.is_owner = (hd[h].node = h),
                       !.n_user = hd[h].n_user]]

\* WARN_ON(cond)
Warn(W, cond, what) == IF cond THEN [W EXCEPT !.warns = @ \cup {what}] ELSE W

bus1_handle_is_owner(W, h) == h # NULL /\ W.hd[h].node = h

bus1_handle_is_public(W, h) == h # NULL /\ W.hd[h].n_inflight >= 0

bus1_handle_has_id(W, h) == h # NULL /\ W.hd[h].id # BUS1_HANDLE_INVALID

\* kfree_rcu(node): the node and the owner handle it embeds are gone
bus1_handle_node_free(W, n) ==
    LET W1 == Warn(W, W.hd[n].holder # NULL, "node_free_holder")
        W2 == Warn(W1, W.nd[n].list_handles # <<>>, "node_free_list")
    IN  [W2 EXCEPT !.nd[n] = FreeNode, !.hd[n] = FreeHandle]

\* kref_put(&node->ref, bus1_handle_node_free)
node_put(W, n) ==
    IF W.nd[n].ref > 1
    THEN [W EXCEPT !.nd[n].ref = @ - 1]
    ELSE bus1_handle_node_free(W, n)

bus1_handle_destroy(W, h) ==
    LET W1 == Warn(W, /\ W.hd[h].n_inflight # -1
                      /\ (W.hd[h].n_inflight = 0) # (W.hd[h].n_user = 0),
                   "destroy_counters")
        W2 == Warn(W1, W.hd[h].holder # NULL, "destroy_holder")
    IN  node_put(W2, W.hd[h].node)

\* Faulty variant: the memory of an owner handle is released like that of
\* any other handle
bus1_handle_free_KfreeOwner(W, h) ==
    LET W1 == bus1_handle_destroy(W, h)
    IN  [W1 EXCEPT !.hd[h] = FreeHandle]

\* kref release of a handle: an owner handle stays in memory with its node
bus1_handle_free(W, h) ==
    LET is_owner == bus1_handle_is_owner(W, h)
        W1 == bus1_handle_destroy(W, h)
    IN  IF ~is_owner
        THEN [W1 EXCEPT !.hd[h] = FreeHandle]
        ELSE IF W1.hd[h].st = "free"
             THEN W1
             ELSE [W1 EXCEPT !.hd[h].st = "dead", !.hd[h].ref = 0]

bus1_handle_ref(W, h) ==
    IF h = NULL THEN W
    ELSE Warn([W EXCEPT !.hd[h].ref = @ + 1], W.hd[h].st # "live", "ref_dead")

bus1_handle_unref(W, h) ==
    IF h = NULL THEN W
    ELSE IF W.hd[h].st # "live" THEN Warn(W, TRUE, "unref_dead")
    ELSE IF W.hd[h].ref > 1 THEN [W EXCEPT !.hd[h].ref = @ - 1]
    ELSE bus1_handle_free(W, h)

bus1_handle_init(W, h, n) ==
    [W EXCEPT !.hd[h] = [st |-> "live", node |-> n, id |-> BUS1_HANDLE_INVALID,
                         holder |-> NULL, ref |-> 1, n_inflight |-> -1,
                         n_user |-> 0, rb_node |-> FALSE],
              !.nd[n].ref = @ + 1]

\* kmalloc(): the lowest free slot, NULL when memory is exhausted
kmalloc(W) ==
    LET free == {h \in Handles : W.hd[h].st = "free"}
    IN  IF free = {} THEN NULL ELSE CHOOSE h \in free : \A g \in free : h <= g

\* A call's result next to the memory it leaves behind
Res(W, r) == [W |-> W, r |-> r]

bus1_handle_new_copy(W, existing) ==
    LET h == kmalloc(W)
    IN  IF h = NULL THEN Res(W, NULL)
        ELSE Res(bus1_handle_init(W, h, W.hd[existing].node), h)

bus1_handle_new(W) ==
    LET h == kmalloc(W)
        W1 == [W EXCEPT !.nd[h] = [ref |-> 1, timestamp |-> 0, list_handles |-> <<>>]]
        W2 == bus1_handle_init(W1, h, h)
    IN  IF h = NULL THEN Res(W, NULL)
        ELSE Res([W2 EXCEPT !.nd[h].ref = @ - 1], h)

\* kref_get_unless_zero(&handle->ref)
get_unless_zero(W, h) ==
    IF W.hd[h].st = "live" /\ W.hd[h].ref > 0
    THEN Res([W EXCEPT !.hd[h].ref = @ + 1], h)
    ELSE Res(W, NULL)

bus1_handle_find_by_id(W, p, id) ==
    LET found == {h \in W.pr[p].map_handles_by_id : W.hd[h].id = id}
    IN  IF found = {} THEN Res(W, NULL)
        ELSE get_unless_zero(W, CHOOSE h \in found : TRUE)

bus1_handle_find_by_node(W, p, existing) ==
    LET found == {h \in W.pr[p].map_handles_by_node :
                      W.hd[h].node = W.hd[existing].node}
    IN  IF found = {} THEN Res(W, NULL)
        ELSE get_unless_zero(W, CHOOSE h \in found : TRUE)

\* Faulty variant: an owner whose counter is 0 is refused as well
bus1_handle_acquire_NoOwnerException(W, h) ==
    IF h = NULL THEN Res(W, NULL)
    ELSE IF ~bus1_handle_is_public(W, h)
         THEN Res(Warn(W, TRUE, "acquire_private"), NULL)
    ELSE IF W.hd[h].n_inflight # 0
         THEN Res([W EXCEPT !.hd[h].n_inflight = @ + 1], h)
         ELSE Res(W, NULL)

bus1_handle_acquire(W, h) ==
    IF h = NULL THEN Res(W, NULL)
    ELSE IF ~bus1_handle_is_public(W, h)
         THEN Res(Warn(W, TRUE, "acquire_private"), NULL)
    ELSE IF W.hd[h].n_inflight # 0 \/ bus1_handle_is_owner(W, h)
         THEN Res([W EXCEPT !.hd[h].n_inflight = @ + 1], h)
         ELSE Res(W, NULL)

\* The handles of S ordered by id, as a red-black tree keeps them
RbMin(W, S) == CHOOSE h \in S : \A g \in S : W.hd[h].id <= W.hd[g].id

RbMax(W, S) == CHOOSE h \in S : \A g \in S : W.hd[h].id >= W.hd[g].id

RbMid(W, S) == CHOOSE h \in S : h # RbMin(W, S) /\ h # RbMax(W, S)

\* The root of the by-id tree of p after rb_link_node_rcu() at the right of
\* rb_last() and rb_insert_color(): a tree of three nodes is balanced, so
\* its root is the middle one. The shape of a larger tree is not followed.
rb_insert_color(W, h, p) ==
    LET S == W.pr[p].map_handles_by_id
        n == Cardinality(S)
    IN  IF n = 0 THEN h
        ELSE IF n = 1 THEN W.pr[p].rb_root
        ELSE IF n = 2 THEN RbMid(W, S \cup {h})
        ELSE NULL

\* The root of the by-id tree of p after rb_erase(): a root with two
\* children is replaced by its successor
rb_erase(W, h, p) ==
    LET S == W.pr[p].map_handles_by_id
        n == Cardinality(S)
    IN  IF n <= 1 THEN NULL
        ELSE IF n = 2 THEN CHOOSE g \in S : g # h
        ELSE IF n = 3
        THEN IF h = W.pr[p].rb_root THEN RbMax(W, S \ {h}) ELSE W.pr[p].rb_root
        ELSE IF n = 4 THEN RbMid(W, S \ {h})
        ELSE NULL

\* rbtree_postorder_for_each_entry_safe(): the orders in which the walk can
\* visit the tree S with the given root: children before their parent, the
\* left child first. Any order for a tree whose shape is not followed.
Postorders(W, S, root) ==
    LET n == Cardinality(S)
    IN  IF n = 0 THEN {<<>>}
        ELSE IF n = 1 THEN {<<RbMin(W, S)>>}
        ELSE IF n = 2
        THEN IF root = RbMin(W, S)
             THEN {<<RbMax(W, S), RbMin(W, S)>>}
             ELSE {<<RbMin(W, S), RbMax(W, S)>>}
        ELSE IF n = 3
        THEN {<<RbMin(W, S), RbMax(W, S), RbMid(W, S)>>}
        ELSE {f \in [1..n -> S] : \A i, j \in 1..n : i # j => f[i] # f[j]}

\* Faulty variant: the id is taken back when the handle leaves the trees
bus1_handle_unlink_rb_ResetId(W, h, p) ==
    IF ~W.hd[h].rb_node THEN W
    ELSE LET W2 == [W EXCEPT !.pr[p].map_handles_by_id = @ \ {h},
                             !.pr[p].map_handles_by_node = @ \ {h},
                             !.pr[p].rb_root = rb_erase(W, h, p),
                             !.hd[h].id = BUS1_HANDLE_INVALID]
         IN  bus1_handle_unref(W2, h)

\* Faulty variant: the handle stays in the by-node tree
bus1_handle_unlink_rb_IdOnly(W, h, p) ==
    IF ~W.hd[h].rb_node THEN W
    ELSE bus1_handle_unref([W EXCEPT !.pr[p].map_handles_by_id = @ \ {h},
                                     !.pr[p].rb_root = rb_erase(W, h, p)], h)

\* Faulty variant: the handle is erased whether or not RB_EMPTY_NODE() says
\* that a flush has taken it out of the trees already
bus1_handle_unlink_rb_NoEmptyTest(W, h, p) ==
    LET W1 == Warn(W, h \notin W.pr[p].map_handles_by_node, "rb_erase_unlinked")
        W2 == [W1 EXCEPT !.pr[p].map_handles_by_id = @ \ {h},
                         !.pr[p].map_handles_by_node = @ \ {h},
                         !.pr[p].rb_root = rb_erase(W, h, p)]
    IN  bus1_handle_unref(W2, h)

\* rb_erase() leaves RB_EMPTY_NODE(&handle->rb_node) false
bus1_handle_unlink_rb(W, h, p) ==
    IF ~W.hd[h].rb_node THEN W
    ELSE LET W1 == Warn(W, h \notin W.pr[p].map_handles_by_node, "rb_erase_unlinked")
             W2 == [W1 EXCEPT !.pr[p].map_handles_by_id = @ \ {h},
                              !.pr[p].map_handles_by_node = @ \ {h},
                              !.pr[p].rb_root = rb_erase(W, h, p)]
         IN  bus1_handle_unref(W2, h)

\* Faulty variant: a destruction committed at the timestamp itself is ordered
\* after it
bus1_handle_get_inorder_id_Strict(W, h, timestamp) ==
    LET ts == W.nd[W.hd[h].node].timestamp
    IN  IF ts > 0 /\ ts % 2 = 0 /\ ts < timestamp
        THEN BUS1_HANDLE_INVALID
        ELSE W.hd[h].id

bus1_handle_get_inorder_id(W, h, timestamp) ==
    LET ts == W.nd[W.hd[h].node].timestamp
    IN  IF ts > 0 /\ ts % 2 = 0 /\ ts <= timestamp
        THEN BUS1_HANDLE_INVALID
        ELSE W.hd[h].id

\* Faulty variant: a handle is attached to a node whose owner has no holder
bus1_handle_attach_unlocked_NoOwnerCheck(W, h, holder) ==
    LET n == W.hd[h].node
    IN  IF W.hd[h].holder # NULL \/ bus1_handle_is_public(W, h)
        THEN Res(Warn(W, TRUE, "attach_public"), TRUE)
        ELSE Res([W EXCEPT !.hd[h].n_inflight = 1,
                           !.hd[h].holder = holder,
                           !.hd[h].ref = @ + 1,
                           !.nd[n].list_handles = Append(@, h)], TRUE)

bus1_handle_attach_unlocked(W, h, holder) ==
    LET n == W.hd[h].node
    IN  IF W.hd[h].holder # NULL \/ bus1_handle_is_public(W, h)
        THEN Res(Warn(W, TRUE, "attach_public"), TRUE)
        ELSE IF W.hd[n].holder = NULL /\ ~bus1_handle_is_owner(W, h)
        THEN Res(W, FALSE)
        ELSE Res([W EXCEPT !.hd[h].n_inflight = 1,
                           !.hd[h].holder = holder,
                           !.hd[h].ref = @ + 1,
                           !.nd[n].list_handles = Append(@, h)], TRUE)

\* Faulty variant: the id is taken from the counter before it is incremented
NextId_PostIncrement(counter) == counter * 4 + BUS1_NODE_FLAG_MANAGED

\* The id a peer hands out next: (++handle_ids << 2) | BUS1_NODE_FLAG_MANAGED
NextId(counter) == (counter + 1) * 4 + BUS1_NODE_FLAG_MANAGED

\* Faulty variant: the handle is linked without a search for a handle of its node
bus1_handle_install_unlocked_NoConflict(W, h) ==
    LET p == W.hd[h].holder
    IN  IF ~bus1_handle_is_public(W, h) \/ p = NULL THEN Res(W, NULL)
        ELSE IF W.hd[h].id # BUS1_HANDLE_INVALID THEN Res(W, h)
        ELSE Res([W EXCEPT !.hd[h].ref = @ + 1,
                           !.hd[h].id = NextId(W.pr[p].handle_ids),
                           !.hd[h].rb_node = TRUE,
                           !.pr[p].handle_ids = @ + 1,
                           !.pr[p].map_handles_by_node = @ \cup {h},
                           !.pr[p].map_handles_by_id = @ \cup {h},
                           !.pr[p].rb_root = rb_insert_color(W, h, p)], h)

bus1_handle_install_unlocked(W, h) ==
    LET p == W.hd[h].holder
        found == {i \in W.pr[p].map_handles_by_node : W.hd[i].node = W.hd[h].node}
        iter == CHOOSE i \in found : TRUE
        W1 == Warn(W, W.hd[iter].holder # p, "install_holder")
        W2 == Warn(W1, W.hd[iter].id = BUS1_HANDLE_INVALID, "install_id")
        A == bus1_handle_acquire(bus1_handle_ref(W2, iter), iter)
    IN  IF ~bus1_handle_is_public(W, h)
        THEN Res(Warn(W, TRUE, "install_private"), NULL)
        ELSE IF W.hd[h].id # BUS1_HANDLE_INVALID
        THEN Res(Warn(W, TRUE, "install_twice"), h)
        ELSE IF p = NULL
        THEN Res(W, NULL)
        ELSE IF found # {}
        THEN Res(Warn(A.W, A.r = NULL, "install_acquire"), iter)
        ELSE Res([W EXCEPT !.hd[h].ref = @ + 1,
                           !.hd[h].id = NextId(W.pr[p].handle_ids),
                           !.hd[h].rb_node = TRUE,
                           !.pr[p].handle_ids = @ + 1,
                           !.pr[p].map_handles_by_node = @ \cup {h},
                           !.pr[p].map_handles_by_id = @ \cup {h},
                           !.pr[p].rb_root = rb_insert_color(W, h, p)], h)

\* Faulty variant: the node is not marked as being destroyed
CommitBegin_NoMark(W, n) ==
    LET W1 == Warn(W, W.nd[n].timestamp # 0, "commit_twice")
        W2 == [W1 EXCEPT !.nd[n].list_handles = Remove(@, n)]
    IN  bus1_handle_unref(W2, n)

\* bus1_handle_commit_destruction() up to its loop: the node is marked as
\* being destroyed and its owner leaves the list
CommitBegin(W, n) ==
    LET W1 == Warn(W, W.nd[n].timestamp # 0, "commit_twice")
        W2 == [W1 EXCEPT !.nd[n].timestamp = 1,
                         !.nd[n].list_handles = Remove(@, n)]
    IN  bus1_handle_unref(W2, n)

\* bus1_handle_commit_destruction() after its loop
CommitEnd(W, n, p) ==
    LET W1 == Warn(W, W.hd[n].st = "free", "commit_freed")
    IN  IF W.hd[n].st = "free" THEN W1
        ELSE bus1_handle_unlink_rb([W EXCEPT !.nd[n].timestamp = 2,
                                             !.hd[n].holder = NULL], n, p)

\* bus1_handle_commit_destruction() of a node no other handle is attached to
bus1_handle_commit_destruction(W, n, p) == CommitEnd(CommitBegin(W, n), n, p)

\* atomic_dec_and_test(&handle->n_inflight)
DecInflight(W, h) == [W EXCEPT !.hd[h].n_inflight = @ - 1]

\* The locked release of the last inflight reference of an owner
bus1_handle_release_owner(W, h, p) ==
    LET W0 == Warn(W, W.hd[h].n_inflight < 1, "release_owner_inflight")
        W1 == DecInflight(W0, h)
        W2 == Warn(W1, W1.hd[h].n_user > 0, "release_owner_user")
        W3 == [W2 EXCEPT !.nd[h].list_handles = Remove(@, h)]
    IN  IF W1.hd[h].n_inflight # 0 THEN W1
        ELSE IF W2.nd[h].timestamp # 0 THEN W2
        ELSE IF W3.nd[h].list_handles # <<>> THEN W3
        ELSE bus1_handle_commit_destruction(W3, h, p)

\* bus1_handle_release_holder(), the critical section of the holder: the
\* result tells whether this call dropped the handle from its holder
ReleaseHolderLocal(W, h, p) ==
    LET W0 == Warn(W, W.hd[h].n_inflight < 1, "release_holder_inflight")
        W1 == DecInflight(W0, h)
        W2 == Warn(W1, W1.hd[h].n_user > 0, "release_holder_user")
    IN  IF W1.hd[h].n_inflight # 0 THEN Res(W1, FALSE)
        ELSE IF W2.hd[h].holder = NULL THEN Res(W2, FALSE)
        ELSE Res(bus1_handle_unlink_rb([W2 EXCEPT !.hd[h].holder = NULL], h, p), TRUE)

\* Faulty variant: the node is left alone when its list runs empty
ReleaseHolderRemote_NoCommit(W, h) ==
    LET n == W.hd[h].node
        remote == W.hd[n].holder
        W1 == [W EXCEPT !.nd[n].list_handles = Remove(@, h)]
        W2 == bus1_handle_unref(W1, h)
    IN  IF remote = NULL \/ W.nd[n].timestamp # 0 THEN W
        ELSE W2

\* bus1_handle_release_holder(), the critical section of the node owner
ReleaseHolderRemote(W, h) ==
    LET n == W.hd[h].node
        remote == W.hd[n].holder
        W1 == [W EXCEPT !.nd[n].list_handles = Remove(@, h)]
        W2 == bus1_handle_unref(W1, h)
    IN  IF remote = NULL \/ W.nd[n].timestamp # 0 THEN W
        ELSE IF W2.nd[n].list_handles # <<>> THEN W2
        ELSE bus1_handle_commit_destruction(W2, n, remote)

(* ------------------------------------------------------------------ *)
(* Handles: the calls                                                   *)
(* ------------------------------------------------------------------ *)

\* The local variables of a call that has not started
IdleOp ==
    [pc |-> "idle", kind |-> "none", r |-> "none",
     p |-> NULL,            \* peer_info / src
     d |-> NULL,            \* dst
     h |-> NULL,            \* the handle the call looked up or created
     t |-> NULL,            \* transfer->batch: the pinned handle
     t_n_handles |-> 0,     \* transfer->batch.n_handles
     t_n_new |-> 0,         \* transfer->n_new
     i |-> NULL,            \* inflight->batch: the pinned handle
     fresh |-> FALSE,       \* bus1_handle_new_copy() allocated that handle
     i_n_handles |-> 0,     \* inflight->batch.n_handles
     i_n_new |-> 0,         \* inflight->n_new
     i_n_new_local |-> 0,   \* inflight->n_new_local
     n_installs |-> 0,      \* n_installs of bus1_handle_inflight_install()
     rel |-> NULL,          \* the handle bus1_handle_release() works on
     rp |-> NULL,           \* its pinned holder
     ret |-> "none",        \* where the call goes on after the release
     cn |-> NULL,           \* the node bus1_handle_commit_destruction() works on
     list |-> <<>>,         \* LIST_HEAD(list_handles)
     map |-> <<>>,          \* the tree bus1_handle_flush_all() took over,
                            \* in the order of the walk over it
     owned |-> {},          \* the owner handles that were in that tree
     held |-> {},           \* the other handles that were in that tree
     alloc |-> FALSE,       \* the transfer allocated the node of t
     n_dst |-> 0,           \* the destinations the send is done with
     t_n_entries |-> 0,     \* transfer->batch.n_entries
     i_n_entries |-> 0,     \* inflight->batch.n_entries
     destroys |-> <<>>]     \* the contexts destroyed before the send returns

\* A call that returned r
DoneOp(kind, r) == [IdleOp EXCEPT !.pc = "done"]

\* No handle allocated, no call made; the callers make up to calls calls,
\* threads of them at a time
HInitial(threads, calls) ==
    /\ hd = [h \in Handles |-> FreeHandle]
    /\ nd = [n \in Handles |-> FreeNode]
    /\ pr = [p \in Peers |-> EmptyPeerInfo]
    /\ ops = [o \in Ops |-> IdleOp]
    /\ warns = {}
    /\ h_last = NoReturn
    /\ sched = [threads |-> threads, calls |-> calls]

HInit == HInitial(NThreads, MaxOps)

SetWorld(W) ==
    /\ hd' = W.hd
    /\ nd' = W.nd
    /\ pr' = W.pr
    /\ warns' = W.warns
    /\ sched' = sched
    /\ h_last' = [W.last EXCEPT !.unchanged =
                     /\ W.last.kind # "none"
                     /\ W.hd = hd /\ W.nd = nd /\ W.pr = pr]

\* The calls in progress, one thread each
Running == {o \in Ops : ops[o].pc \notin {"idle", "done"}}

\* Calls start in the order of their numbers, on a thread that is free
CanStart(o) ==
    /\ ops[o].pc = "idle"
    /\ IF o = 1 THEN TRUE ELSE ops[o - 1].pc # "idle"
    /\ o <= sched.calls
    /\ Cardinality(Running) < sched.threads

\* The ids peer p has handed out so far
KnownIds(p) == {NextId(k - 1) : k \in 1..pr[p].handle_ids}

\* The ids a caller passes in: those, and the id that is handed out next
IdChoices(p) == KnownIds(p) \cup {NextId(pr[p].handle_ids)}

\* The sequence numbers a transaction commits with: 0 orders before every
\* destruction, 2 and 4 after every committed one
SeqChoices == {0, 2, 4}

\* The call goes on with bus1_handle_release(rel), drops its reference to
\* rel and continues at ret
CallRelease(op, rel, ret) ==
    [op EXCEPT !.pc = "release", !.rel = rel, !.rp = NULL, !.ret = ret]

\* The call goes on with bus1_handle_release_pinned(rel, rp)
CallReleasePinned(op, rel, rp, ret) ==
    [op EXCEPT !.pc = "release", !.rel = rel, !.rp = rp, !.ret = ret]

\* The end of a release: bus1_handle_unref(rel), then on at ret
Return(op) ==
    IF op.ret = "done"
    THEN DoneOp(op.kind, op.r)
    ELSE [op EXCEPT !.pc = op.ret, !.rel = NULL, !.rp = NULL, !.ret = "none"]

\* The locked release of h, of the kind given, returns: W is the memory it
\* leaves, before the caller drops its own reference to h
Released(W, kind, h) ==
    [W EXCEPT !.last =
        [NoReturn EXCEPT !.kind = kind, !.r = "0", !.h = h,
                       !.n = hd[h].node,
                       !.is_owner = (hd[h].node = h),
                       !.n_inflight = hd[h].n_inflight,
                       !.owner = hd[hd[h].node].holder,
                       !.ts = nd[hd[h].node].timestamp,
                       !.list = nd[hd[h].node].list_handles,
                       !.ts_after = W.nd[hd[h].node].timestamp]]

\* bus1_handle_release() / bus1_handle_release_pinned(): the lockless part
Release(o) ==
    LET op == ops[o]
        W == World
        h == op.rel
        n_inflight == W.hd[h].n_inflight
        peer == IF op.rp # NULL THEN op.rp ELSE W.hd[h].holder
    IN  /\ op.pc = "release"
        /\ IF ~bus1_handle_is_public(W, h)
           THEN /\ SetWorld(bus1_handle_unref(Warn(W, TRUE, "release_private"), h))
                /\ ops' = [ops EXCEPT ![o] = Return(op)]
           ELSE IF n_inflight # 1
           THEN \* atomic_add_unless(&handle->n_inflight, -1, 1)
                /\ SetWorld(bus1_handle_unref(DecInflight(W, h), h))
                /\ ops' = [ops EXCEPT ![o] = Return(op)]
           ELSE IF peer = NULL
           THEN \* the holder is gone: atomic_dec(&handle->n_inflight)
                /\ SetWorld(bus1_handle_unref(DecInflight(W, h), h))
                /\ ops' = [ops EXCEPT ![o] = Return(op)]
           ELSE /\ SetWorld(W)
                /\ ops' = [ops EXCEPT ![o].pc = "release_last", ![o].rp = peer]
        /\ UNCHANGED <<qvars, uvars, lvars, rvars>>

\* bus1_handle_release_last(): the critical section of the holder
ReleaseLast(o) ==
    LET op == ops[o]
        W == World
        h == op.rel
        L == ReleaseHolderLocal(W, h, op.rp)
    IN  /\ op.pc = "release_last"
        /\ IF bus1_handle_is_owner(W, h)
           THEN /\ SetWorld(bus1_handle_unref(
                            Released(bus1_handle_release_owner(W, h, op.rp),
                                     "release_owner", h), h))
                /\ ops' = [ops EXCEPT ![o] = Return(op)]
           ELSE IF L.r
           THEN /\ SetWorld(L.W)
                /\ ops' = [ops EXCEPT ![o].pc = "release_remote"]
           ELSE /\ SetWorld(bus1_handle_unref(L.W, h))
                /\ ops' = [ops EXCEPT ![o] = Return(op)]
        /\ UNCHANGED <<qvars, uvars, lvars, rvars>>

\* bus1_handle_release_holder(): the critical section of the node owner
ReleaseRemote(o) ==
    LET op == ops[o]
        h == op.rel
    IN  /\ op.pc = "release_remote"
        /\ SetWorld(bus1_handle_unref(
                        Released(ReleaseHolderRemote(World, h),
                                 "release_holder", h), h))
        /\ ops' = [ops EXCEPT ![o] = Return(op)]
        /\ UNCHANGED <<qvars, uvars, lvars, rvars>>

\* Faulty variant: the inflight reference is released although it backs the first
\* user reference
ReleaseToInflight_AlwaysRelease(W, h, timestamp) ==
    LET id == bus1_handle_get_inorder_id(W, h, timestamp)
    IN  IF id = BUS1_HANDLE_INVALID THEN Res(W, TRUE)
        ELSE Res([W EXCEPT !.hd[h].n_user = @ + 1], TRUE)

\* bus1_handle_release_to_inflight() up to its call of bus1_handle_release():
\* the result tells whether the caller's inflight reference is released
ReleaseToInflight(W, h, timestamp) ==
    LET W0 == Warn(W, ~bus1_handle_has_id(W, h), "inorder_no_id")
        id == bus1_handle_get_inorder_id(W, h, timestamp)
        W1 == [W0 EXCEPT !.hd[h].n_user = @ + 1]
    IN  IF id = BUS1_HANDLE_INVALID THEN Res(W0, TRUE)
        ELSE Res(W1, W1.hd[h].n_user # 1)

\* A call through the exported functions that brings a node to peer d: a
\* new node (p = NULL), or the node of the handle peer p knows as id.
\* bus1_handle_new() / bus1_handle_find_by_id() + bus1_handle_new_copy()
ImportStart(o, p, id, d) ==
    LET W == World
        F == bus1_handle_find_by_id(W, p, id)
        C == IF p = NULL THEN bus1_handle_new(W) ELSE bus1_handle_new_copy(F.W, F.r)
        W2 == IF p = NULL THEN C.W ELSE bus1_handle_unref(C.W, F.r)
    IN  /\ CanStart(o)
        /\ IF p = NULL THEN id = 0 ELSE id \in KnownIds(p)
        /\ IF p # NULL /\ F.r = NULL
           THEN /\ SetWorld(F.W)
                /\ ops' = [ops EXCEPT ![o] = DoneOp("import", "ENXIO")]
           ELSE IF C.r = NULL
           THEN /\ SetWorld(W2)
                /\ ops' = [ops EXCEPT ![o] = DoneOp("import", "ENOMEM")]
           ELSE /\ SetWorld(W2)
                /\ ops' = [ops EXCEPT ![o] =
                              [IdleOp EXCEPT !.pc = "import_attach", !.kind = "import",
                                             !.d = d, !.h = C.r]]
        /\ UNCHANGED <<qvars, uvars, lvars, rvars>>

\* bus1_handle_attach_unlocked(h, d) in the critical section of the node owner
ImportAttach(o) ==
    LET op == ops[o]
        A == bus1_handle_attach_unlocked(World, op.h, op.d)
        Tag(Wx) ==
            [Wx EXCEPT !.last =
                [Ret(A.W, "attach", IF A.r THEN "true" ELSE "false",
                     op.d, BUS1_HANDLE_INVALID, op.h).last EXCEPT
                    !.owner = hd[hd[op.h].node].holder,
                    !.n_inflight = hd[op.h].n_inflight]]
    IN  /\ op.pc = "import_attach"
        /\ IF A.r
           THEN /\ SetWorld(Tag(A.W))
                /\ ops' = [ops EXCEPT ![o].pc = "import_install"]
           ELSE /\ SetWorld(Tag(bus1_handle_unref(A.W, op.h)))
                /\ ops' = [ops EXCEPT ![o] = DoneOp("import", "gone")]
        /\ UNCHANGED <<qvars, uvars, lvars, rvars>>

\* bus1_handle_install_unlocked(h) in the critical section of the holder; a
\* caller that is handed another handle releases and drops its own
ImportInstall(o) ==
    LET op == ops[o]
        I == bus1_handle_install_unlocked(World, op.h)
    IN  /\ op.pc = "import_install"
        /\ SetWorld(I.W)
        /\ IF I.r = op.h
           THEN ops' = [ops EXCEPT ![o].pc = "import_commit"]
           ELSE ops' = [ops EXCEPT ![o] =
                           CallRelease([op EXCEPT !.h = I.r], op.h, "import_commit")]
        /\ UNCHANGED <<qvars, uvars, lvars, rvars>>

\* bus1_handle_release_to_inflight(h, seq); bus1_handle_unref(h)
ImportCommit(o, seq) ==
    LET op == ops[o]
        T == ReleaseToInflight(World, op.h, seq)
        id == bus1_handle_get_inorder_id(World, op.h, seq)
        Wr == Report(T.W, "import", op.d, id, op.h, seq)
    IN  /\ op.pc = "import_commit"
        /\ IF op.h = NULL
           THEN /\ SetWorld(World)
                /\ ops' = [ops EXCEPT ![o] = DoneOp("import", "gone")]
           ELSE IF T.r
           THEN /\ SetWorld(Wr)
                /\ ops' = [ops EXCEPT ![o] =
                              CallRelease([op EXCEPT !.r = "0"], op.h, "done")]
           ELSE /\ SetWorld(bus1_handle_unref(Wr, op.h))
                /\ ops' = [ops EXCEPT ![o] = DoneOp("import", "0")]
        /\ UNCHANGED <<qvars, uvars, lvars, rvars>>

\* entry->id & BUS1_NODE_FLAG_ALLOCATE
HasAllocate(id) == (id \div BUS1_NODE_FLAG_ALLOCATE) % 2 = 1

\* The ids with the allocate bit a sender passes: the legal one, one without
\* BUS1_NODE_FLAG_MANAGED, one with a reserved upper bit
AllocateIds ==
    {BUS1_NODE_FLAG_ALLOCATE + BUS1_NODE_FLAG_MANAGED,
     BUS1_NODE_FLAG_ALLOCATE,
     BUS1_NODE_FLAG_ALLOCATE + BUS1_NODE_FLAG_MANAGED + 4}

\* Faulty variant: any id with the allocate bit is accepted
AllocateIsLegal_Any(id) == TRUE

\* (entry->id & ~BUS1_NODE_FLAG_ALLOCATE) == BUS1_NODE_FLAG_MANAGED
AllocateIsLegal(id) == id - BUS1_NODE_FLAG_ALLOCATE = BUS1_NODE_FLAG_MANAGED

\* bus1_handle_transfer_init() and bus1_handle_transfer_instantiate() of a
\* transaction from peer p to peer d that carries one id
bus1_handle_transfer_instantiate(o, p, d, id) ==
    LET W == World
        N == bus1_handle_new(W)
        F == bus1_handle_find_by_id(W, p, id)
        A == bus1_handle_acquire(F.W, F.r)
        Wf == IF F.r # NULL /\ A.r = NULL THEN bus1_handle_unref(A.W, F.r) ELSE A.W
        start == [IdleOp EXCEPT !.pc = "inflight_instantiate", !.kind = "send",
                                !.p = p, !.d = d, !.t_n_entries = 1]
        Tag(Wx, r, h, got, n_new) ==
            [Wx EXCEPT !.last =
                [Ret(W, "transfer", r, p, id, h).last EXCEPT
                    !.got = got, !.n_new = n_new,
                    !.fresh = got # NULL /\ hd[got] = FreeHandle,
                    !.n_inflight = IF h = NULL THEN 0 ELSE hd[h].n_inflight,
                    !.n_after = IF h = NULL THEN 0 ELSE A.W.hd[h].n_inflight]]
    IN  /\ CanStart(o)
        /\ id \in KnownIds(p) \cup AllocateIds
        /\ IF HasAllocate(id) /\ ~AllocateIsLegal(id)
           THEN /\ SetWorld(Tag(W, "EINVAL", NULL, NULL, 0))
                /\ ops' = [ops EXCEPT ![o] = DoneOp("send", "EINVAL")]
           ELSE IF HasAllocate(id) /\ N.r = NULL
           THEN /\ SetWorld(Tag(W, "ENOMEM", NULL, NULL, 0))
                /\ ops' = [ops EXCEPT ![o] = DoneOp("send", "ENOMEM")]
           ELSE IF HasAllocate(id)
           THEN /\ SetWorld(Tag(N.W, "0", NULL, N.r, 1))
                /\ ops' = [ops EXCEPT ![o] =
                              [start EXCEPT !.t = N.r, !.t_n_new = 1, !.t_n_handles = 1,
                                            !.alloc = TRUE]]
           ELSE /\ SetWorld(Tag(Wf, "0", F.r, A.r, 0))
                /\ ops' = [ops EXCEPT ![o] =
                              [start EXCEPT !.t = A.r, !.t_n_handles = 1]]
        /\ UNCHANGED <<qvars, uvars, lvars, rvars>>

\* bus1_handle_inflight_init() and bus1_handle_inflight_instantiate()
bus1_handle_inflight_instantiate(o) ==
    LET op == ops[o]
        W == World
        F == bus1_handle_find_by_node(W, op.d, op.t)
        A == bus1_handle_acquire(F.W, F.r)
        Wf == IF F.r # NULL /\ A.r = NULL THEN bus1_handle_unref(A.W, F.r) ELSE A.W
        C == bus1_handle_new_copy(Wf, op.t)
    IN  /\ op.pc = "inflight_instantiate"
        /\ IF op.t = NULL
           THEN /\ SetWorld(W)
                /\ ops' = [ops EXCEPT ![o].pc = "inflight_install",
                                      ![o].i_n_entries = 1,
                                      ![o].i_n_handles = 1]
           ELSE IF A.r # NULL
           THEN /\ SetWorld(Wf)
                /\ ops' = [ops EXCEPT ![o].pc = "inflight_install",
                                      ![o].i_n_entries = 1,
                                      ![o].i = A.r, ![o].i_n_handles = 1]
           ELSE IF C.r # NULL
           THEN /\ SetWorld(C.W)
                /\ ops' = [ops EXCEPT ![o].pc = "inflight_install",
                                      ![o].i_n_entries = 1,
                                      ![o].i = C.r, ![o].i_n_handles = 1,
                                      ![o].fresh = TRUE]
           ELSE /\ SetWorld(Wf)
                /\ ops' = [ops EXCEPT ![o].pc = "transfer_destroy",
                                      ![o].i_n_entries = 1,
                                      ![o].r = "ENOMEM"]
        /\ UNCHANGED <<qvars, uvars, lvars, rvars>>

\* bus1_handle_attach(): bus1_handle_attach_unlocked() in the critical
\* section of the node owner, which must still be there
bus1_handle_attach(W, h, holder) ==
    IF ~bus1_handle_is_owner(W, h) /\ W.hd[W.hd[h].node].holder = NULL
    THEN Res(W, FALSE)
    ELSE bus1_handle_attach_unlocked(W, h, holder)

\* Faulty variant: the new nodes of the transfer are not counted down
TransferNewLeft_Kept(n_new, installed) == n_new

\* --transfer->n_new for a node that is attached and installed
TransferNewLeft(n_new, installed) ==
    IF installed THEN n_new - 1 ELSE n_new

\* bus1_handle_inflight_install(): the critical section of src, then the
\* attach of every new handle, then the critical section of dst
bus1_handle_inflight_install(o) ==
    LET op == ops[o]
        W == World
        \* the critical section of src: the new nodes of the transfer
        locked == op.t_n_new > 0 \/ op.i_n_new_local > 0
        doT == /\ locked /\ op.t_n_new >= 1
               /\ op.t # NULL /\ ~bus1_handle_is_public(W, op.t)
        A1 == bus1_handle_attach_unlocked(W, op.t, op.p)
        I1 == bus1_handle_install_unlocked(Warn(A1.W, ~A1.r, "install_attach"), op.t)
        W1 == IF doT THEN Warn(I1.W, I1.r # op.t, "install_owner") ELSE W
        t_n_new == TransferNewLeft(op.t_n_new, doT)
        W2 == Warn(W1, locked /\ t_n_new > 0, "transfer_n_new")
        \* the critical section of src: the new handles of nodes src owns
        doL == /\ locked /\ op.i_n_new_local >= 1
               /\ op.i # NULL /\ ~bus1_handle_is_public(W2, op.i)
        A2 == bus1_handle_attach_unlocked(W2, op.i, op.d)
        W3 == IF ~doL THEN W2
              ELSE IF A2.r THEN A2.W ELSE bus1_handle_unref(A2.W, op.i)
        i3 == IF doL /\ ~A2.r THEN NULL ELSE op.i
        n_new3 == IF doL THEN op.i_n_new - 1 ELSE op.i_n_new
        n_local3 == IF doL THEN op.i_n_new_local - 1 ELSE op.i_n_new_local
        W4 == Warn(W3, locked /\ n_local3 > 0, "inflight_n_new_local")
        \* the attach of the other new handles
        doB == op.i # NULL /\ ~bus1_handle_is_public(W, op.i)
        B == bus1_handle_attach(W, op.i, op.d)
        Wb == IF ~doB THEN W
              ELSE IF B.r THEN B.W ELSE bus1_handle_unref(B.W, op.i)
        ib == IF doB /\ ~B.r THEN NULL ELSE op.i
        n_newb == IF doB THEN op.i_n_new - 1 ELSE op.i_n_new
        \* the critical section of dst
        doC == /\ op.i # NULL /\ ~bus1_handle_has_id(W, op.i)
               /\ bus1_handle_is_public(W, op.i)
        Wc == Warn(W, op.i # NULL /\ ~bus1_handle_has_id(W, op.i)
                         /\ ~bus1_handle_is_public(W, op.i), "install_private")
        I == bus1_handle_install_unlocked(W, op.i)
        n_installsc == IF doC THEN op.n_installs - 1 ELSE op.n_installs
        After(n_new, n_installs) ==
            IF n_new > 0 THEN "inflight_attach"
            ELSE IF n_installs > 0 THEN "inflight_install_dst"
            ELSE "inflight_commit"
    IN  /\ op.pc \in {"inflight_install", "inflight_attach", "inflight_install_dst"}
        /\ IF op.pc = "inflight_install" /\ op.i_n_handles < 1
           THEN /\ SetWorld(W)
                /\ ops' = [ops EXCEPT ![o].pc = "inflight_commit"]
           ELSE IF op.pc = "inflight_install"
           THEN /\ SetWorld(IF locked THEN W4 ELSE W)
                /\ ops' = [ops EXCEPT ![o].pc = After(n_new3, op.i_n_new),
                                      ![o].n_installs = op.i_n_new,
                                      ![o].t_n_new = t_n_new,
                                      ![o].i = i3,
                                      ![o].i_n_new = n_new3,
                                      ![o].i_n_new_local = n_local3]
           ELSE IF op.pc = "inflight_attach"
           THEN /\ SetWorld(Warn(Wb, n_newb > 0, "inflight_n_new"))
                /\ ops' = [ops EXCEPT ![o].pc = After(0, op.n_installs),
                                      ![o].i = ib,
                                      ![o].i_n_new = n_newb]
           ELSE IF doC /\ I.r # op.i
           THEN /\ SetWorld(Warn(I.W, n_installsc > 0, "inflight_n_installs"))
                /\ ops' = [ops EXCEPT ![o] =
                              CallRelease([op EXCEPT !.i = I.r, !.n_installs = n_installsc],
                                          op.i, "inflight_commit")]
           ELSE /\ SetWorld(Warn(IF doC THEN I.W ELSE Wc, n_installsc > 0,
                                 "inflight_n_installs"))
                /\ ops' = [ops EXCEPT ![o].pc = "inflight_commit",
                                      ![o].n_installs = n_installsc]
        /\ UNCHANGED <<qvars, uvars, lvars, rvars>>

\* bus1_handle_inflight_commit(), bus1_handle_inflight_destroy()
bus1_handle_inflight_commit(o, seq) ==
    LET op == ops[o]
        W == Warn(World, op.i_n_handles # 1, "commit_n_handles")
        T == ReleaseToInflight(W, op.i, seq)
        id == bus1_handle_get_inorder_id(W, op.i, seq)
        Wr == [Report(T.W, "commit", op.d, id, op.i, seq) EXCEPT
                  !.last.fresh = op.fresh]
    IN  /\ op.pc = "inflight_commit"
        /\ IF op.i = NULL
           THEN /\ SetWorld([W EXCEPT !.last =
                                [NoReturn EXCEPT !.kind = "commit", !.r = "0",
                                               !.p = op.d, !.seq = seq,
                                               !.id = BUS1_HANDLE_INVALID]])
                /\ ops' = [ops EXCEPT ![o].pc = "transfer_destroy",
                                      ![o].i_n_handles = 0]
           ELSE IF T.r
           THEN /\ SetWorld(Wr)
                /\ ops' = [ops EXCEPT ![o] =
                              CallRelease([op EXCEPT !.i = NULL, !.i_n_handles = 0],
                                          op.i, "transfer_destroy")]
           ELSE /\ SetWorld(bus1_handle_unref(Wr, op.i))
                /\ ops' = [ops EXCEPT ![o].pc = "transfer_destroy",
                                      ![o].i = NULL, ![o].i_n_handles = 0]
        /\ UNCHANGED <<qvars, uvars, lvars, rvars>>

\* The send goes on to its next destination d with the same transfer
\* context: bus1_handle_inflight_destroy() of the committed context, which
\* has nothing pinned, and bus1_handle_inflight_init() of a new one
NextDestination(o, d) ==
    LET op == ops[o]
    IN  /\ op.pc = "transfer_destroy"
        /\ op.r = "none"
        /\ op.n_dst + 1 < MaxDests
        /\ SetWorld(World)
        /\ ops' = [ops EXCEPT ![o] =
                      [op EXCEPT !.pc = "inflight_instantiate", !.d = d,
                                 !.i = NULL, !.fresh = FALSE,
                                 !.i_n_handles = 0, !.i_n_new = 0,
                                 !.i_n_new_local = 0, !.n_installs = 0,
                                 !.i_n_entries = 0, !.n_dst = @ + 1]]
        /\ UNCHANGED <<qvars, uvars, lvars, rvars>>

\* Faulty variant: the entries are released whatever the counters say
bus1_handle_batch_destroy_NoCount(n_entries, n_handles, h) == h

\* bus1_handle_batch_destroy(): the handle it releases from a batch of one
\* entry that holds h. It returns at once when n_entries is 0, and
\* BUS1_HANDLE_BATCH_FOREACH_HANDLE visits the first n_handles entries
bus1_handle_batch_destroy(n_entries, n_handles, h) ==
    IF n_entries = 0 \/ n_handles = 0 THEN NULL ELSE h

\* bus1_handle_transfer_destroy(), the last call before the send returns.
\* The inflight contexts are destroyed by then: bus1_handle_inflight_commit()
\* reset n_handles, a failed bus1_handle_inflight_instantiate() pinned nothing
bus1_handle_transfer_destroy(o) ==
    LET op == ops[o]
        W == World
        r == IF op.r = "none" THEN "0" ELSE op.r
        h == bus1_handle_batch_destroy(op.t_n_entries, op.t_n_handles, op.t)
    IN  /\ op.pc = "transfer_destroy"
        /\ bus1_handle_batch_destroy(op.i_n_entries, op.i_n_handles, op.i) = NULL
        /\ IF h # NULL /\ bus1_handle_is_public(W, h)
           THEN /\ SetWorld(W)
                /\ ops' = [ops EXCEPT ![o] =
                              CallRelease([op EXCEPT !.r = r, !.t = NULL], h, "done")]
           ELSE /\ SetWorld(bus1_handle_unref(W, h))
                /\ ops' = [ops EXCEPT ![o] = DoneOp("send", r)]
        /\ UNCHANGED <<qvars, uvars, lvars, rvars>>

\* The caller gives up a send after bus1_handle_inflight_instantiate() has
\* pinned the handles of a destination, and goes on to destroy the contexts
InflightAbort(o) ==
    LET op == ops[o]
    IN  /\ op.pc \in {"inflight_install", "inflight_commit"}
        /\ SetWorld(World)
        /\ ops' = [ops EXCEPT ![o].pc = "transfer_destroy", ![o].r = "EFAULT"]
        /\ UNCHANGED <<qvars, uvars, lvars, rvars>>

\* bus1_handle_inflight_destroy() (ctx "inflight") or
\* bus1_handle_transfer_destroy() (ctx "transfer") called on a context while
\* the send goes on: bus1_handle_batch_destroy() of its batch. The entries
\* keep their pointers, only the counters are reset.
DestroyContext(o, ctx) ==
    LET op == ops[o]
        W == World
        h == IF ctx = "inflight"
             THEN bus1_handle_batch_destroy(op.i_n_entries, op.i_n_handles, op.i)
             ELSE bus1_handle_batch_destroy(op.t_n_entries, op.t_n_handles, op.t)
        after == IF ctx = "inflight"
                 THEN [op EXCEPT !.i_n_entries = 0, !.i_n_handles = 0,
                                 !.destroys = Append(@, ctx)]
                 ELSE [op EXCEPT !.t_n_entries = 0, !.t_n_handles = 0,
                                 !.destroys = Append(@, ctx)]
    IN  /\ op.pc = "transfer_destroy"
        /\ ctx \in {"inflight", "transfer"}
        /\ Len(op.destroys) < MaxDestroys
        /\ IF h # NULL /\ bus1_handle_is_public(W, h)
           THEN /\ SetWorld(W)
                /\ ops' = [ops EXCEPT ![o] = CallRelease(after, h, "transfer_destroy")]
           ELSE /\ SetWorld(bus1_handle_unref(W, h))
                /\ ops' = [ops EXCEPT ![o] = after]
        /\ UNCHANGED <<qvars, uvars, lvars, rvars>>

\* Faulty variant: the counter is decremented even when it is not positive
atomic_dec_if_positive_Always(W, h) ==
    Res([W EXCEPT !.hd[h].n_user = @ - 1], W.hd[h].n_user - 1)

\* atomic_dec_if_positive(&handle->n_user): returns the old value minus 1,
\* and stores it unless it is negative
atomic_dec_if_positive(W, h) ==
    IF W.hd[h].n_user - 1 < 0
    THEN Res(W, W.hd[h].n_user - 1)
    ELSE Res([W EXCEPT !.hd[h].n_user = @ - 1], W.hd[h].n_user - 1)

\* bus1_handle_release_by_id() up to bus1_handle_release_pinned()
bus1_handle_release_by_id(o, p, id) ==
    LET W == World
        F == bus1_handle_find_by_id(W, p, id)
        h == F.r
        D == atomic_dec_if_positive(F.W, h)
        n_user == D.r
        start == [IdleOp EXCEPT !.kind = "release", !.p = p]
    IN  /\ CanStart(o)
        /\ id \in IdChoices(p)
        /\ IF h = NULL
           THEN /\ SetWorld(Ret(F.W, "release", "ENXIO", p, id, NULL))
                /\ ops' = [ops EXCEPT ![o] = DoneOp("release", "ENXIO")]
           ELSE IF n_user < 0
           THEN /\ SetWorld(bus1_handle_unref(
                               Ret(D.W, "release", "ESTALE", p, id, h), h))
                /\ ops' = [ops EXCEPT ![o] = DoneOp("release", "ESTALE")]
           ELSE IF n_user > 0
           THEN /\ SetWorld(bus1_handle_unref(
                               Ret(D.W, "release", "0", p, id, h), h))
                /\ ops' = [ops EXCEPT ![o] = DoneOp("release", "0")]
           ELSE /\ SetWorld(Ret(D.W, "release", "none", p, id, h))
                /\ ops' = [ops EXCEPT ![o] =
                              CallReleasePinned([start EXCEPT !.r = "0"], h, p, "done")]
        /\ UNCHANGED <<qvars, uvars, lvars, rvars>>

\* The first round of the loop of bus1_handle_commit_destruction(): the
\* handles of the node move to the caller's list, the lock is dropped
CommitSplice(W, n) == [W EXCEPT !.nd[n].list_handles = <<>>]

\* Faulty variant: a node whose destruction has begun is destroyed again
DestroyCheck_NoTimestampTest(W, h) ==
    IF ~bus1_handle_is_owner(W, h) THEN "EPERM" ELSE "0"

\* What bus1_handle_destroy_by_id() decides under the lock of the peer
DestroyCheck(W, h) ==
    IF ~bus1_handle_is_owner(W, h) THEN "EPERM"
    ELSE IF W.nd[W.hd[h].node].timestamp # 0 THEN "EINPROGRESS"
    ELSE "0"

\* bus1_handle_destroy_by_id() up to the first unlock
bus1_handle_destroy_by_id(o, p, id) ==
    LET W == World
        F == bus1_handle_find_by_id(W, p, id)
        h == F.r
        r == DestroyCheck(F.W, h)
        B == CommitBegin(F.W, h)
        start == [IdleOp EXCEPT !.kind = "destroy", !.p = p, !.h = h, !.r = "0"]
    IN  /\ CanStart(o)
        /\ id \in IdChoices(p)
        /\ IF h = NULL
           THEN /\ SetWorld(Ret(F.W, "destroy", "ENXIO", p, id, NULL))
                /\ ops' = [ops EXCEPT ![o] = DoneOp("destroy", "ENXIO")]
           ELSE IF r # "0"
           THEN /\ SetWorld(bus1_handle_unref(
                               Ret(F.W, "destroy", r, p, id, h), h))
                /\ ops' = [ops EXCEPT ![o] = DoneOp("destroy", r)]
           ELSE IF B.nd[h].list_handles = <<>>
           THEN /\ SetWorld(Ret(CommitEnd(B, h, p), "destroy", "none", p, id, h))
                /\ ops' = [ops EXCEPT ![o] = [start EXCEPT !.pc = "finalize"]]
           ELSE /\ SetWorld(Ret(CommitSplice(B, h), "destroy", "none", p, id, h))
                /\ ops' = [ops EXCEPT ![o] =
                              [start EXCEPT !.pc = "commit_loop", !.cn = h,
                                            !.list = B.nd[h].list_handles]]
        /\ UNCHANGED <<qvars, uvars, lvars, rvars>>

\* The loop of bus1_handle_commit_destruction() from mutex_lock() on: one
\* more round, or the end of the destruction
CommitLoop(o) ==
    LET op == ops[o]
        W == World
        n == op.cn
        E == CommitEnd(W, n, op.p)
    IN  /\ op.pc = "commit_loop"
        /\ IF W.nd[n].list_handles # <<>>
           THEN /\ SetWorld(CommitSplice(W, n))
                /\ ops' = [ops EXCEPT ![o].list = @ \o W.nd[n].list_handles]
           ELSE IF op.kind = "flush"
           THEN \* bus1_handle_finish_all() drops the reference of the tree
                /\ SetWorld(bus1_handle_unref(E, op.h))
                /\ ops' = [ops EXCEPT ![o].pc = "finish_all", ![o].cn = NULL,
                                      ![o].h = NULL]
           ELSE /\ SetWorld(E)
                /\ ops' = [ops EXCEPT ![o].pc = "finalize", ![o].cn = NULL]
        /\ UNCHANGED <<qvars, uvars, lvars, rvars>>

\* Faulty variant: the handle only loses the reference of the list
FinalizeOne_KeepHolder(W, h) == bus1_handle_unref(W, h)

\* One round of the loop of bus1_handle_finalize_destruction(), for a handle
\* taken from the list
FinalizeOne(W, h) ==
    LET remote == W.hd[h].holder
        W1 == IF remote # NULL
              THEN bus1_handle_unlink_rb([W EXCEPT !.hd[h].holder = NULL], h, remote)
              ELSE W
    IN  bus1_handle_unref(W1, h)

\* bus1_handle_finalize_destruction(): one round of its loop, or its end
\* and the end of the call
bus1_handle_finalize_destruction(o) ==
    LET op == ops[o]
        W == World
        h == Head(op.list)
    IN  /\ op.pc = "finalize"
        /\ IF op.list # <<>>
           THEN /\ SetWorld(FinalizeOne(W, h))
                /\ ops' = [ops EXCEPT ![o].list = Tail(@)]
           ELSE IF op.kind = "flush"
           THEN /\ SetWorld([W EXCEPT !.last =
                                [NoReturn EXCEPT !.kind = "flush", !.r = "0",
                                               !.p = op.p, !.owned = op.owned,
                                               !.held = op.held]])
                /\ ops' = [ops EXCEPT ![o] = DoneOp(op.kind, op.r)]
           ELSE /\ SetWorld(bus1_handle_unref(
                               Ret(W, "destroy", "0", op.p, W.hd[op.h].id, op.h),
                               op.h))
                /\ ops' = [ops EXCEPT ![o] = DoneOp(op.kind, op.r)]
        /\ UNCHANGED <<qvars, uvars, lvars, rvars>>

\* bus1_handle_flush_all() in the critical section of the peer
bus1_handle_flush_all(o, p) ==
    LET W == World
        map == W.pr[p].map_handles_by_id
    IN  /\ CanStart(o)
        /\ SetWorld([W EXCEPT !.pr[p].map_handles_by_id = {},
                              !.pr[p].map_handles_by_node = {},
                              !.pr[p].rb_root = NULL,
                              !.hd = [h \in Handles |->
                                         IF h \in map
                                         THEN [W.hd[h] EXCEPT !.rb_node = FALSE]
                                         ELSE W.hd[h]]])
        /\ \E walk \in Postorders(W, map, W.pr[p].rb_root) :
              ops' = [ops EXCEPT ![o] =
                      [IdleOp EXCEPT !.pc = "finish_all", !.kind = "flush",
                                     !.p = p, !.map = walk, !.r = "0",
                                     !.owned = {h \in map : bus1_handle_is_owner(W, h)},
                                     !.held = {h \in map : ~bus1_handle_is_owner(W, h)}]]
        /\ UNCHANGED <<qvars, uvars, lvars, rvars>>

\* bus1_handle_finish_all(): one round of its loop over the tree that
\* bus1_handle_flush_all() took over, up to the first unlock
bus1_handle_finish_all(o) ==
    LET op == ops[o]
        W == World
    IN  /\ op.pc = "finish_all"
        /\ IF op.map = <<>>
           THEN /\ SetWorld(W)
                /\ ops' = [ops EXCEPT ![o].pc = "finalize"]
           ELSE LET h == Head(op.map)
                    B == CommitBegin(W, h)
                    rest == [op EXCEPT !.map = Tail(@)]
                IN  IF bus1_handle_is_owner(W, h)
                    THEN IF W.nd[h].timestamp # 0
                         THEN /\ SetWorld(bus1_handle_unref(W, h))
                              /\ ops' = [ops EXCEPT ![o] = [rest EXCEPT !.list = <<>>]]
                         ELSE IF B.nd[h].list_handles = <<>>
                         THEN /\ SetWorld(bus1_handle_unref(CommitEnd(B, h, op.p), h))
                              /\ ops' = [ops EXCEPT ![o] = [rest EXCEPT !.list = <<>>]]
                         ELSE /\ SetWorld(CommitSplice(B, h))
                              /\ ops' = [ops EXCEPT ![o] =
                                            [rest EXCEPT !.pc = "commit_loop",
                                                         !.cn = h, !.h = h,
                                                         !.list = B.nd[h].list_handles]]
                    ELSE IF W.hd[h].n_user > 0
                    THEN /\ SetWorld([W EXCEPT !.hd[h].n_user = 0])
                         /\ ops' = [ops EXCEPT ![o] =
                                       CallReleasePinned(rest, h, op.p, "finish_all")]
                    ELSE /\ SetWorld(bus1_handle_unref([W EXCEPT !.hd[h].n_user = 0], h))
                         /\ ops' = [ops EXCEPT ![o] = rest]
        /\ UNCHANGED <<qvars, uvars, lvars, rvars>>

HNext ==
    \/ \E o \in Ops, d \in Peers : ImportStart(o, NULL, 0, d)
    \/ \E o \in Ops, p \in Peers, d \in Peers :
          \E id \in KnownIds(p) : ImportStart(o, p, id, d)
    \/ \E o \in Ops : ImportAttach(o)
    \/ \E o \in Ops : ImportInstall(o)
    \/ \E o \in Ops, seq \in SeqChoices : ImportCommit(o, seq)
    \/ \E o \in Ops, p \in Peers, d \in Peers :
          \E id \in AllocateIds : bus1_handle_transfer_instantiate(o, p, d, id)
    \/ \E o \in Ops, p \in Peers, d \in Peers :
          \E id \in KnownIds(p) : bus1_handle_transfer_instantiate(o, p, d, id)
    \/ \E o \in Ops : bus1_handle_inflight_instantiate(o)
    \/ \E o \in Ops : bus1_handle_inflight_install(o)
    \/ \E o \in Ops, seq \in SeqChoices : bus1_handle_inflight_commit(o, seq)
    \/ \E o \in Ops : bus1_handle_transfer_destroy(o)
    \/ \E o \in Ops, p \in Peers : \E id \in IdChoices(p) :
          bus1_handle_release_by_id(o, p, id)
    \/ \E o \in Ops, p \in Peers : \E id \in IdChoices(p) :
          bus1_handle_destroy_by_id(o, p, id)
    \/ \E o \in Ops, p \in Peers : bus1_handle_flush_all(o, p)
    \/ \E o \in Ops : bus1_handle_finish_all(o)
    \/ \E o \in Ops : CommitLoop(o)
    \/ \E o \in Ops : bus1_handle_finalize_destruction(o)
    \/ \E o \in Ops : Release(o)
    \/ \E o \in Ops : ReleaseLast(o)
    \/ \E o \in Ops : ReleaseRemote(o)

(* ------------------------------------------------------------------ *)
(* Peer locks: the mutex_lock() and mutex_unlock() calls of handle.c    *)
(* ------------------------------------------------------------------ *)

Threads == 1..NThreads

\* bus1_handle_lock_holder() / bus1_handle_lock_owner() .. body ..
\* bus1_handle_unlock_peer(): a peer that cannot be pinned is not locked,
\* and the callers skip the body then
Critical(p, body) ==
    IF p = NULL THEN <<>>
    ELSE <<[a |-> "lock", p |-> p]>> \o body \o <<[a |-> "unlock", p |-> p]>>

RECURSIVE commit_destruction_locks(_, _)
\* bus1_handle_commit_destruction(), called with the lock of p held: every
\* round of its loop unlocks p and locks it again
commit_destruction_locks(p, rounds) ==
    IF rounds = 0 THEN <<>>
    ELSE <<[a |-> "unlock", p |-> p], [a |-> "lock", p |-> p]>>
             \o commit_destruction_locks(p, rounds - 1)

RECURSIVE finalize_destruction_locks(_)
\* bus1_handle_finalize_destruction(): the holder of every drained handle
\* is locked in turn; holders[i] is NULL if it cannot be pinned
finalize_destruction_locks(holders) ==
    IF holders = <<>> THEN <<>>
    ELSE Critical(Head(holders), <<>>) \o finalize_destruction_locks(Tail(holders))

\* bus1_handle_release_owner()
release_owner_locks(p, rounds, drained) ==
    Critical(p, commit_destruction_locks(p, rounds))
        \o finalize_destruction_locks(drained)

\* Faulty variant: the owner is locked with the lock of the holder still held
release_holder_locks_Nested(p, remote, rounds, drained) ==
    Critical(p, Critical(remote, commit_destruction_locks(remote, rounds)))
        \o finalize_destruction_locks(drained)

\* bus1_handle_release_holder(): the critical section of the holder, then
\* the one of the node owner
release_holder_locks(p, remote, rounds, drained) ==
    Critical(p, <<>>)
        \o Critical(remote, commit_destruction_locks(remote, rounds))
        \o finalize_destruction_locks(drained)

\* bus1_handle_destroy_by_id()
destroy_by_id_locks(p, rounds, drained) ==
    Critical(p, commit_destruction_locks(p, rounds))
        \o finalize_destruction_locks(drained)

\* bus1_handle_finish_all() on a tree with an owner handle and a handle of
\* the node of remote, in the order of the walk
finish_all_locks(p, owner_first, remote, rounds, drained) ==
    LET owner == Critical(p, commit_destruction_locks(p, rounds))
        other == release_holder_locks(p, remote, 0, <<>>)
    IN  (IF owner_first THEN owner \o other ELSE other \o owner)
            \o finalize_destruction_locks(drained)

\* bus1_handle_inflight_install(): the source is locked to install the new
\* nodes, bus1_handle_attach() locks the owner of every other node, then
\* the destination is locked and, if it has a handle for the node already
\* (conflict), unlocked around the release of the new one
inflight_install_locks(src, dst, owner, conflict) ==
    Critical(src, <<>>)
        \o Critical(owner, <<>>)
        \o Critical(dst, IF conflict
                         THEN <<[a |-> "unlock", p |-> dst]>>
                                  \o release_holder_locks(dst, owner, 0, <<>>)
                                  \o <<[a |-> "lock", p |-> dst]>>
                         ELSE <<>>)

\* The lists of drained handles: the holder of each, NULL if it is gone
DrainedChoices ==
    UNION {[1..n -> Peers \cup {NULL}] : n \in 0..MaxDrained}

\* No lock held, no call made
LInit ==
    /\ lock = [p \in Peers |-> NULL]
    /\ thr = [t \in Threads |-> [todo |-> <<>>, calls |-> 0]]

\* Thread t enters handle.c with a call that makes the lock calls of prog
LockCall(t, prog) ==
    /\ thr[t].todo = <<>>
    /\ thr[t].calls < MaxLockCalls
    /\ thr' = [thr EXCEPT ![t] = [todo |-> prog, calls |-> @.calls + 1]]
    /\ UNCHANGED <<lock, qvars, hvars, uvars, rvars>>

\* mutex_lock(&peer_info->lock): the thread sleeps while the lock is held
mutex_lock(t) ==
    LET e == Head(thr[t].todo)
    IN  /\ thr[t].todo # <<>>
        /\ e.a = "lock"
        /\ lock[e.p] = NULL
        /\ lock' = [lock EXCEPT ![e.p] = t]
        /\ thr' = [thr EXCEPT ![t].todo = Tail(@)]
        /\ UNCHANGED <<qvars, hvars, uvars, rvars>>

\* mutex_unlock(&peer_info->lock)
mutex_unlock(t) ==
    LET e == Head(thr[t].todo)
    IN  /\ thr[t].todo # <<>>
        /\ e.a = "unlock"
        /\ lock' = [lock EXCEPT ![e.p] = NULL]
        /\ thr' = [thr EXCEPT ![t].todo = Tail(@)]
        /\ UNCHANGED <<qvars, hvars, uvars, rvars>>

LockNext ==
    \/ \E t \in Threads, p \in Peers, rounds \in 0..MaxRounds :
          \E drained \in DrainedChoices :
             LockCall(t, release_owner_locks(p, rounds, drained))
    \/ \E t \in Threads, p \in Peers, remote \in Peers \cup {NULL} :
          \E rounds \in 0..MaxRounds, drained \in DrainedChoices :
             LockCall(t, release_holder_locks(p, remote, rounds, drained))
    \/ \E t \in Threads, p \in Peers, rounds \in 0..MaxRounds :
          \E drained \in DrainedChoices :
             LockCall(t, destroy_by_id_locks(p, rounds, drained))
    \/ \E t \in Threads, p \in Peers, remote \in Peers \cup {NULL} :
          \E owner_first \in BOOLEAN, rounds \in 0..MaxRounds :
             \E drained \in DrainedChoices :
                LockCall(t, finish_all_locks(p, owner_first, remote, rounds,
                                             drained))
    \/ \E t \in Threads, src \in Peers, dst \in Peers :
          \E owner \in Peers \cup {NULL}, conflict \in BOOLEAN :
             LockCall(t, inflight_install_locks(src, dst, owner, conflict))
    \/ \E t \in Threads : mutex_lock(t)
    \/ \E t \in Threads : mutex_unlock(t)

(* ------------------------------------------------------------------ *)
(* Users: the registry of user objects                                  *)
(* ------------------------------------------------------------------ *)

Uids == 1..NUids

UserObjs == 1..NUserObjs

\* INVALID_UID
INVALID_UID == -1

\* kfree()d memory
FreeUser == [ref |-> 0, uid |-> INVALID_UID, live |-> FALSE]

\* A thread outside user.c that holds no user
NoCaller ==
    [pc |-> "idle", uid |-> INVALID_UID,
     user |-> NULL,         \* user
     ret |-> NULL,          \* old_user: what the call returns after the unref
     held |-> NULL,         \* the user the thread got from bus1_user_ref_by_uid()
     calls |-> 0]

RInit ==
    /\ bus1_user_idr = {}
    /\ users = [u \in UserObjs |-> FreeUser]
    /\ callers = [t \in Threads |-> NoCaller]

\* idr_find(&bus1_user_idr, uid)
idr_find(uid) ==
    IF \E e \in bus1_user_idr : e[1] = uid
    THEN (CHOOSE e \in bus1_user_idr : e[1] = uid)[2]
    ELSE NULL

\* idr_remove(&bus1_user_idr, uid)
idr_remove(uid) == {e \in bus1_user_idr : e[1] # uid}

\* bus1_user_ref_by_uid(): the idr_find() under rcu_read_lock()
bus1_user_ref_by_uid(t, uid) ==
    /\ callers[t].pc = "idle"
    /\ callers[t].held = NULL
    /\ callers[t].calls < MaxUserCalls
    /\ callers' = [callers EXCEPT ![t] =
                      [@ EXCEPT !.pc = IF idr_find(uid) # NULL THEN "get" ELSE "new",
                                !.uid = uid, !.user = idr_find(uid),
                                !.calls = @ + 1]]
    /\ UNCHANGED <<bus1_user_idr, users, qvars, hvars, uvars, lvars>>

\* kref_get_unless_zero(&user->ref) on the object the lockless lookup found
kref_get_unless_zero(t) ==
    LET c == callers[t]
    IN  /\ c.pc = "get"
        /\ IF users[c.user].ref > 0
           THEN /\ users' = [users EXCEPT ![c.user].ref = @ + 1]
                /\ callers' = [callers EXCEPT ![t] =
                                  [c EXCEPT !.pc = "idle", !.held = c.user,
                                            !.user = NULL]]
           ELSE /\ users' = users
                /\ callers' = [callers EXCEPT ![t] =
                                  [c EXCEPT !.pc = "new", !.user = NULL]]
        /\ UNCHANGED <<bus1_user_idr, qvars, hvars, uvars, lvars>>

\* The memory kmalloc() can hand out: released, and past the grace period of
\* every lockless lookup that found it
Allocatable == {u \in UserObjs : ~users[u].live
                                 /\ \A t \in Threads : callers[t].user # u}

\* bus1_user_new() and ida_simple_get(): r is what they return
bus1_user_new(t, r) ==
    LET c == callers[t]
    IN  /\ c.pc = "new"
        /\ r \in {"0", "ENOMEM", "ida"}
        /\ IF r = "ENOMEM"
           THEN /\ users' = users
                /\ callers' = [callers EXCEPT ![t] =
                                  [c EXCEPT !.pc = "idle", !.uid = INVALID_UID]]
           ELSE \E u \in Allocatable :
                   /\ users' = [users EXCEPT ![u] =
                                   [ref |-> 1, uid |-> INVALID_UID, live |-> TRUE]]
                   /\ callers' = [callers EXCEPT ![t] =
                                     [c EXCEPT !.pc = IF r = "0" THEN "insert"
                                                      ELSE "unref",
                                               !.user = u, !.ret = NULL]]
        /\ UNCHANGED <<bus1_user_idr, qvars, hvars, uvars, lvars>>

\* Faulty variant: the dying object keeps its uid when it is replaced
MarkRemoved_Keep(uid) == uid

\* old_user->uid = INVALID_UID: mark old as removed
MarkRemoved(uid) == INVALID_UID

\* bus1_user_ref_by_uid(): the critical section of bus1_user_lock; ok tells
\* whether idr_alloc() succeeds
UserInsert(t, ok) ==
    LET c == callers[t]
        old_user == idr_find(c.uid)
    IN  /\ c.pc = "insert"
        /\ IF old_user = NULL
           THEN IF ok
                THEN /\ bus1_user_idr' = bus1_user_idr \cup {<<c.uid, c.user>>}
                     /\ users' = [users EXCEPT ![c.user].uid = c.uid]
                     /\ callers' = [callers EXCEPT ![t] =
                                       [c EXCEPT !.pc = "idle", !.held = c.user,
                                                 !.user = NULL]]
                ELSE /\ bus1_user_idr' = bus1_user_idr
                     /\ users' = users
                     /\ callers' = [callers EXCEPT ![t].pc = "unref"]
           ELSE IF users[old_user].ref = 0
           THEN /\ bus1_user_idr' = idr_remove(c.uid) \cup {<<c.uid, c.user>>}
                /\ users' = [users EXCEPT
                                ![c.user].uid = c.uid,
                                ![old_user].uid = MarkRemoved(@)]
                /\ callers' = [callers EXCEPT ![t] =
                                  [c EXCEPT !.pc = "idle", !.held = c.user,
                                            !.user = NULL]]
           ELSE /\ bus1_user_idr' = bus1_user_idr
                /\ users' = [users EXCEPT ![old_user].ref = @ + 1]
                /\ callers' = [callers EXCEPT ![t] =
                                  [c EXCEPT !.pc = "unref", !.ret = old_user]]
        /\ UNCHANGED <<qvars, hvars, uvars, lvars>>

\* bus1_user_unref(): kref_put() of the reference the thread holds, or of
\* the object bus1_user_ref_by_uid() allocated and does not return
bus1_user_unref(t) ==
    LET c == callers[t]
        user == IF c.pc = "unref" THEN c.user ELSE c.held
    IN  /\ c.pc = "unref" \/ (c.pc = "idle" /\ c.held # NULL)
        /\ users' = [users EXCEPT ![user].ref = @ - 1]
        /\ callers' = [callers EXCEPT ![t] =
                          IF users[user].ref = 1
                          THEN [c EXCEPT !.pc = "free", !.user = user, !.held = NULL]
                          ELSE [c EXCEPT !.pc = "idle", !.user = NULL,
                                         !.held = c.ret, !.ret = NULL]]
        /\ UNCHANGED <<bus1_user_idr, qvars, hvars, uvars, lvars>>

\* bus1_user_free(): if (uid_valid(user->uid)), read without the lock
bus1_user_free(t) ==
    LET c == callers[t]
    IN  /\ c.pc = "free"
        /\ callers' = [callers EXCEPT ![t].pc =
                          IF users[c.user].uid # INVALID_UID THEN "free_locked"
                          ELSE "kfree_rcu"]
        /\ UNCHANGED <<bus1_user_idr, users, qvars, hvars, uvars, lvars>>

\* bus1_user_free(): the critical section of bus1_user_lock
UserFreeLocked(t) ==
    LET c == callers[t]
    IN  /\ c.pc = "free_locked"
        /\ bus1_user_idr' = IF users[c.user].uid # INVALID_UID
                            THEN idr_remove(users[c.user].uid)
                            ELSE bus1_user_idr
        /\ callers' = [callers EXCEPT ![t].pc = "kfree_rcu"]
        /\ UNCHANGED <<users, qvars, hvars, uvars, lvars>>

\* kfree_rcu(user, rcu), and the return of the call that dropped the object
kfree_rcu(t) ==
    LET c == callers[t]
    IN  /\ c.pc = "kfree_rcu"
        /\ users' = [users EXCEPT ![c.user] = FreeUser]
        /\ callers' = [callers EXCEPT ![t] =
                          [c EXCEPT !.pc = "idle", !.user = NULL,
                                    !.held = c.ret, !.ret = NULL]]
        /\ UNCHANGED <<bus1_user_idr, qvars, hvars, uvars, lvars>>

UserRefNext ==
    \/ \E t \in Threads, uid \in Uids : bus1_user_ref_by_uid(t, uid)
    \/ \E t \in Threads : kref_get_unless_zero(t)
    \/ \E t \in Threads, r \in {"0", "ENOMEM", "ida"} : bus1_user_new(t, r)
    \/ \E t \in Threads, ok \in BOOLEAN : UserInsert(t, ok)
    \/ \E t \in Threads : bus1_user_unref(t)
    \/ \E t \in Threads : bus1_user_free(t)
    \/ \E t \in Threads : UserFreeLocked(t)
    \/ \E t \in Threads : kfree_rcu(t)

Init == QInit /\ HInit /\ UInit /\ LInit /\ RInit

HandleNext == HNext

\* MaxOps calls into handle.c, NThreads of them at a time, on a bus of
\* NPeers peers
HandleSpec == Init /\ [][HandleNext]_vars

\* NThreads threads, each making up to MaxLockCalls calls into handle.c
LockSpec == Init /\ [][LockNext]_vars

SeqInit == QInit /\ HInitial(1, MaxCalls) /\ UInit /\ LInit /\ RInit

SeqHandleNext == HNext

\* The calls that bring handles to peers and release them again; no node is
\* destroyed other than by the release of its last handle
SendNext ==
    \/ \E o \in Ops, d \in Peers : ImportStart(o, NULL, 0, d)
    \/ \E o \in Ops, p \in Peers, d \in Peers :
          \E id \in KnownIds(p) : ImportStart(o, p, id, d)
    \/ \E o \in Ops : ImportAttach(o)
    \/ \E o \in Ops : ImportInstall(o)
    \/ \E o \in Ops, seq \in SeqChoices : ImportCommit(o, seq)
    \/ \E o \in Ops, p \in Peers, d \in Peers :
          \E id \in AllocateIds : bus1_handle_transfer_instantiate(o, p, d, id)
    \/ \E o \in Ops, p \in Peers, d \in Peers :
          \E id \in KnownIds(p) : bus1_handle_transfer_instantiate(o, p, d, id)
    \/ \E o \in Ops : bus1_handle_inflight_instantiate(o)
    \/ \E o \in Ops : bus1_handle_inflight_install(o)
    \/ \E o \in Ops, seq \in SeqChoices : bus1_handle_inflight_commit(o, seq)
    \/ \E o \in Ops : bus1_handle_transfer_destroy(o)
    \/ \E o \in Ops, p \in Peers : \E id \in IdChoices(p) :
          bus1_handle_release_by_id(o, p, id)
    \/ \E o \in Ops : Release(o)
    \/ \E o \in Ops : ReleaseLast(o)
    \/ \E o \in Ops : ReleaseRemote(o)

MultiSendNext ==
    \/ SendNext
    \/ \E o \in Ops, d \in Peers : NextDestination(o, d)

MultiSendInit == QInit /\ HInitial(NThreads, NThreads) /\ UInit /\ LInit /\ RInit

\* One call on each of NThreads threads, with sends that have up to
\* MaxDests destinations
MultiSendSpec == MultiSendInit /\ [][MultiSendNext]_vars

ContextNext ==
    \/ SendNext
    \/ \E o \in Ops : InflightAbort(o)
    \/ \E o \in Ops, ctx \in {"inflight", "transfer"} : DestroyContext(o, ctx)

\* One call on each of NThreads threads, with sends that are given up and
\* contexts that are destroyed up to MaxDestroys times
ContextSpec == MultiSendInit /\ [][ContextNext]_vars

\* NThreads threads that get and drop the users of NUids uids, each calling
\* bus1_user_ref_by_uid() up to MaxUserCalls times
UserRefSpec == Init /\ [][UserRefNext]_vars

\* MaxCalls calls into handle.c that do not overlap
SeqHandleSpec == SeqInit /\ [][SeqHandleNext]_vars

LifecycleInit == QInit /\ HInitial(NThreads, MaxCalls) /\ UInit /\ LInit /\ RInit

\* The calls that create, release and destroy handles, without transactions
LifecycleNext ==
    \/ \E o \in Ops, d \in Peers : ImportStart(o, NULL, 0, d)
    \/ \E o \in Ops, p \in Peers, d \in Peers :
          \E id \in KnownIds(p) : ImportStart(o, p, id, d)
    \/ \E o \in Ops : ImportAttach(o)
    \/ \E o \in Ops : ImportInstall(o)
    \/ \E o \in Ops, seq \in SeqChoices : ImportCommit(o, seq)
    \/ \E o \in Ops, p \in Peers : \E id \in IdChoices(p) :
          bus1_handle_release_by_id(o, p, id)
    \/ \E o \in Ops, p \in Peers : \E id \in IdChoices(p) :
          bus1_handle_destroy_by_id(o, p, id)
    \/ \E o \in Ops, p \in Peers : bus1_handle_flush_all(o, p)
    \/ \E o \in Ops : bus1_handle_finish_all(o)
    \/ \E o \in Ops : CommitLoop(o)
    \/ \E o \in Ops : bus1_handle_finalize_destruction(o)
    \/ \E o \in Ops : Release(o)
    \/ \E o \in Ops : ReleaseLast(o)
    \/ \E o \in Ops : ReleaseRemote(o)

\* MaxCalls such calls, NThreads of them at a time
LifecycleSpec == LifecycleInit /\ [][LifecycleNext]_vars

QueueNext == QNext

QuotaNext == UNext

\* The quota of NQuotaPeers peers charged by NUsers users
QuotaSpec == Init /\ [][QuotaNext]_vars

\* One user sends to one peer: it charges, and its charges are dropped or
\* taken over by the receiver
SingleUserNext ==
    \/ \E m \in MessageChoices : bus1_user_quota_charge(1, 1, m[1], m[2], m[3])
    \/ \E i \in DOMAIN u_charges : bus1_user_quota_discharge(i)
    \/ \E i \in DOMAIN u_charges : bus1_user_quota_commit(i)

\* The quota of one peer, with budgets at their maximum, charged by one user
SingleUserSpec == Init /\ [][SingleUserNext]_vars

OrderedQueueNext == QOrderedNext

\* One queue under arbitrary calls that respect the documented preconditions
QueueSpec == Init /\ [][QueueNext]_vars

\* One queue whose callers never trip WARN_ON(queue->front)
OrderedQueueSpec == Init /\ [][OrderedQueueNext]_vars

(* ------------------------------------------------------------------ *)
(* Claims about the queue                                               *)
(* ------------------------------------------------------------------ *)
Committed(e) == e # NULL /\ ~IsStaging(q_seq[e])

\* front is NULL, or the leftmost entry and committed
FrontIsLeftmostCommitted ==
    front = NULL \/ (front = rb_first(messages) /\ Committed(front))

\* C1 (as claimed): after any sequence of link, unlink, relink and flush
\* calls, front is NULL or refers to the leftmost entry and that entry has an
\* even seq; whenever the leftmost entry has an odd seq, front is NULL.
C1_FrontInvariant_Claimed ==
    /\ FrontIsLeftmostCommitted
    /\ (messages # <<>> /\ IsStaging(q_seq[rb_first(messages)])) => front = NULL

\* C1 (amended): the same, for every sequence of calls in which no entry was
\* linked as leftmost while the queue had a front (WARN_ON(queue->front)).
C1_FrontInvariant ==
    ~q_warned =>
        /\ FrontIsLeftmostCommitted
        /\ (messages # <<>> /\ IsStaging(q_seq[rb_first(messages)]))
              => front = NULL

C1_Witness ==
    /\ ~q_warned
    /\ q_last.op = "relink"
    /\ front = q_last.entry
    /\ Len(messages) >= 2

\* C2: bus1_queue_peek returns a non-NULL entry iff the queue is non-empty
\* and its leftmost entry is committed, and the entry returned is that
\* leftmost entry.
C2_PeekIffReadable ==
    /\ (bus1_queue_peek # NULL) <=>
          (messages # <<>> /\ Committed(rb_first(messages)))
    /\ bus1_queue_peek # NULL => bus1_queue_peek = rb_first(messages)

\* peek never returns a staging entry, nor a committed entry behind a linked
\* staging entry with a smaller seq
StagingBlocks ==
    bus1_queue_peek # NULL =>
        /\ ~IsStaging(q_seq[bus1_queue_peek])
        /\ \A e \in Range(messages) :
              IsStaging(q_seq[e]) => ~(q_seq[e] < q_seq[bus1_queue_peek])

\* C3 (as claimed): in every reachable queue state peek never returns a
\* staging entry and never returns a committed entry while a staging entry
\* with a smaller seq is linked.
C3_StagingBlocks_Claimed == StagingBlocks

\* C3 (amended): the same in every state reached without linking an entry
\* as leftmost while the queue had a front.
C3_StagingBlocks == ~q_warned => StagingBlocks

C3_Witness ==
    /\ ~q_warned
    /\ bus1_queue_peek # NULL
    /\ \E e \in Range(messages) :
          IsStaging(q_seq[e]) /\ q_seq[e] > q_seq[bus1_queue_peek]
    /\ q_last.op = "link"

C5_UnlinkFront ==
    (q_last.op = "unlink" /\ q_last.front = q_last.entry) =>
        /\ ~q_oops
        /\ front = IF Committed(q_last.next) THEN q_last.next ELSE NULL
        /\ ~IsLinked(messages, q_last.entry)

\* C6: bus1_queue_unlink returns true iff the unlinked entry was a staging
\* entry blocking the front of the queue and its successor is committed, and
\* then peek returns that successor.
C6_UnlinkReturn ==
    q_last.op = "unlink" =>
        /\ q_last.ret <=>
              /\ IsStaging(q_last.seq)
              /\ q_last.first = q_last.entry
              /\ Committed(q_last.next)
        /\ q_last.ret => bus1_queue_peek = q_last.next

\* C7: bus1_queue_relink returns true iff the queue had no front before the
\* call and has a committed front after it, be it the relinked entry or a
\* committed entry the staging entry was blocking.
C7_RelinkReturn ==
    q_last.op = "relink" =>
        /\ q_last.ret <=>
              /\ q_last.front = NULL
              /\ Committed(rb_first(messages))
        /\ q_last.ret => bus1_queue_peek = rb_first(messages)

\* what bus1_queue_link returned against what it did
LinkReturnsReadable ==
    /\ q_last.ret <=>
          /\ rb_first(messages) = q_last.entry
          /\ ~IsStaging(q_last.seq)
          /\ front = q_last.entry
          /\ q_last.front = NULL
    /\ ~q_last.ret => front = q_last.front

Allocated == {h \in Handles : hd[h].st # "free"}

\* The handles that were attached to their node
Public == {h \in Allocated : hd[h].n_inflight >= 0}

HeldBy(n, p) == {h \in Allocated : hd[h].node = n /\ hd[h].holder = p}

\* What a lookup by node can find in peer p for node n
LookupByNode(n, p) == {h \in pr[p].map_handles_by_node : hd[h].node = n}

\* C10 as claimed: for every node n and peer p at most one handle with node
\* n has holder p, and a lookup by node in p finds at most one handle
C10_OneHandlePerHolder_Claimed ==
    \A n \in Handles, p \in Peers :
        /\ Cardinality(HeldBy(n, p)) <= 1
        /\ Cardinality(LookupByNode(n, p)) <= 1

\* C10 (amended): for every node n and peer p at most one handle with node
\* n is linked in the lookup tree of p, so a lookup by node in p finds at
\* most one handle; handles that are attached but not installed, or that a
\* flush took out of the tree, may share their holder with it.
C10_OneHandlePerHolder ==
    \A n \in Handles, p \in Peers : Cardinality(LookupByNode(n, p)) <= 1

\* Two handles of one node have the same holder, one of them is installed
C10_Witness ==
    \E n \in Handles, p \in Peers :
        /\ Cardinality(HeldBy(n, p)) = 2
        /\ Cardinality(LookupByNode(n, p)) = 1

\* The handles linked in either lookup tree of peer p
Installed(p) == pr[p].map_handles_by_id \cup pr[p].map_handles_by_node

\* C11: for every peer the by-id tree and the by-node tree contain the same
\* handles; every handle in them is held by that peer and is keyed by its own
\* id and node, no two entries have the same id and no two entries of the
\* by-node tree refer to the same node; install, last release, destruction and
\* flush add or remove a handle in both trees together.
C11_TreesAgree ==
    \A p \in Peers :
        /\ pr[p].map_handles_by_id = pr[p].map_handles_by_node
        /\ \A h \in Installed(p) :
              /\ hd[h].st = "live"
              /\ hd[h].holder = p
              /\ hd[h].rb_node
              /\ hd[h].id # BUS1_HANDLE_INVALID
              /\ \A g \in Installed(p) \ {h} :
                    hd[g].id # hd[h].id /\ hd[g].node # hd[h].node

\* A handle is installed while a handle that was installed is unlinked
\* again
C11_Witness ==
    /\ Cardinality(UNION {Installed(p) : p \in Peers}) >= 1
    /\ \E h \in Allocated :
          /\ hd[h].id # BUS1_HANDLE_INVALID
          /\ hd[h].rb_node
          /\ \A p \in Peers : h \notin Installed(p)

\* C12: the ids a peer allocates are strictly increasing in installation
\* order and are never reused, also after a release, a destruction or a flush;
\* they carry the MANAGED flag in the low bits; an install that finds a
\* conflict or a destroyed node allocates no id. Every step raises the id
\* counter of a peer by the number of handles it links; a handle it links
\* gets the new counter value, shifted, with the flag, which is above the id
\* of every handle in memory that this peer holds or flushed; a linked handle
\* keeps its id.
C12_IdsIncrease ==
    [][\A p \in Peers :
          LET new == pr'[p].map_handles_by_id \ pr[p].map_handles_by_id
          IN  /\ pr'[p].handle_ids = pr[p].handle_ids + Cardinality(new)
              /\ \A h \in new :
                    /\ hd'[h].id = pr'[p].handle_ids * 4 + BUS1_NODE_FLAG_MANAGED
                    /\ hd'[h].id % 4 = BUS1_NODE_FLAG_MANAGED
                    /\ \A g \in Allocated \ {h} :
                          hd[g].holder = p => hd[g].id < hd'[h].id
              /\ \A h \in pr'[p].map_handles_by_id \cap pr[p].map_handles_by_id :
                    hd'[h].id = hd[h].id]_vars

\* A peer that allocated two ids holds the second and no longer the first
C12_Witness ==
    \E p \in Peers :
        /\ pr[p].handle_ids = 2
        /\ \A h \in Installed(p) : hd[h].id = 9
        /\ Installed(p) # {}

\* The step just taken is bus1_handle_inflight_commit() of an entry that
\* held an installed handle
CommittedInstalled ==
    /\ h_last.kind = "commit"
    /\ h_last.h # NULL
    /\ h_last.own # BUS1_HANDLE_INVALID

\* C13: after bus1_handle_inflight_commit(seq), for every entry that held an
\* installed handle whose node has destruction timestamp ts, the id reported
\* is INVALID if and only if ts is even, non-zero and ts <= seq; otherwise
\* the handle's own id is reported.
C13_InorderId ==
    CommittedInstalled =>
        /\ h_last.id = BUS1_HANDLE_INVALID <=>
              (h_last.ts % 2 = 0 /\ h_last.ts # 0 /\ h_last.ts <= h_last.seq)
        /\ h_last.id # BUS1_HANDLE_INVALID => h_last.id = h_last.own

\* A transaction commits a handle of a node whose destruction was committed
\* before it
C13_Witness ==
    /\ CommittedInstalled
    /\ h_last.ts = 2
    /\ h_last.seq = 2
    /\ h_last.id = BUS1_HANDLE_INVALID

\* A transaction that is ordered before the destruction of the node reports
\* the id
C13_WitnessBefore ==
    /\ CommittedInstalled
    /\ h_last.ts = 2
    /\ h_last.seq = 0
    /\ h_last.id = h_last.own

\* The handles peer p finds when it looks up id
LookupById(p, id) == {h \in pr[p].map_handles_by_id : hd[h].id = id}

\* C14: when peer A sends a handle of a live node to a peer B that holds no
\* handle for that node, then after inflight instantiate, install and commit
\* for B the id reported to B is not INVALID and has the MANAGED flag set, and
\* a lookup of that id on B returns a handle whose node is A's node.
C14_TransferObserve ==
    (/\ h_last.kind = "commit"
     /\ h_last.h # NULL
     /\ h_last.ts = 0
     /\ ~h_last.dst_has)
    => /\ h_last.id # BUS1_HANDLE_INVALID
       /\ h_last.id % 4 = BUS1_NODE_FLAG_MANAGED
       /\ \E g \in LookupById(h_last.p, h_last.id) : hd[g].node = h_last.n

\* The transactions that passed bus1_handle_inflight_install() with a handle
\* they had allocated for peer p and node n, and have not committed yet
FreshInflight(p, n) ==
    {o \in Ops : /\ ops[o].pc = "inflight_commit"
                 /\ ops[o].fresh
                 /\ ops[o].d = p
                 /\ ops[o].i # NULL
                 /\ hd[ops[o].i].node = n}

\* C15: when two overlapping transactions both carry a fresh destination
\* handle for the same live node n to the same peer B, exactly one install
\* links its handle and allocates an id, the other transaction is handed the
\* winner, both report the same id, and B ends with a single installed handle
\* for n: when the first of them commits, B has exactly one handle of n
\* installed, both transactions hold it, and its id is the id reported.
C15_InstallConflict ==
    (/\ h_last.kind = "commit"
     /\ h_last.fresh
     /\ h_last.h # NULL
     /\ h_last.ts = 0
     /\ FreshInflight(h_last.p, h_last.n) # {})
    => /\ Cardinality(LookupByNode(h_last.n, h_last.p)) = 1
       /\ \A g \in LookupByNode(h_last.n, h_last.p) :
             /\ hd[g].id = h_last.id
             /\ h_last.h = g
             /\ \A o \in FreshInflight(h_last.p, h_last.n) : ops[o].i = g

\* ---- Releasing an id the peer holds no user reference on ----

\* C16: bus1_handle_release_by_id() on an id whose handle has n_user = 0
\* returns -ESTALE, and on an id that is not in the by-id tree of the peer
\* returns -ENXIO; in both cases no handle, node or tree has changed when
\* the call returns, so the same call made again finds the same state
C16_ReleaseStale ==
    h_last.kind = "release" =>
        /\ (h_last.linked /\ h_last.h # NULL /\ h_last.n_user = 0
               => h_last.r = "ESTALE" /\ h_last.unchanged)
        /\ (~h_last.linked => h_last.r = "ENXIO" /\ h_last.unchanged)
        /\ (h_last.r \in {"ESTALE", "ENXIO"} => h_last.unchanged)

\* A release of an installed id without user reference has returned -ESTALE
\* and the handle is still installed with n_user = 0
C16_Witness ==
    /\ h_last.kind = "release"
    /\ h_last.r = "ESTALE"
    /\ h_last.h \in pr[h_last.p].map_handles_by_id
    /\ hd[h_last.h].n_user = 0

\* A release of an id that is not installed has returned -ENXIO
C16_WitnessNotFound ==
    /\ h_last.kind = "release"
    /\ h_last.r = "ENXIO"
    /\ ~h_last.linked
    /\ \E p \in Peers : Installed(p) # {}

\* ---- Flushing a peer ----

\* C17: when bus1_handle_flush_all() and bus1_handle_finish_all() on a peer
\* have completed, every node the peer owned has an even non-zero timestamp
\* and an empty handle list, every handle on one of those nodes has no
\* holder and is in no lookup tree, and every other handle the peer held
\* has n_user = 0 and no inflight reference left
C17_FlushEquivalence ==
    h_last.kind = "flush" =>
        /\ \A n \in h_last.owned :
              hd[n].st # "free" =>
                  /\ nd[n].timestamp # 0
                  /\ nd[n].timestamp % 2 = 0
                  /\ nd[n].list_handles = <<>>
        /\ \A h \in Allocated :
              hd[h].node \in h_last.owned =>
                  /\ hd[h].holder = NULL
                  /\ \A q \in Peers : h \notin Installed(q)
        /\ \A h \in h_last.held :
              hd[h].st # "free" => hd[h].n_user = 0 /\ hd[h].n_inflight <= 0

\* ---- Destroying a node by the id of its owner ----

\* C18: bus1_handle_destroy_by_id() returns -ENXIO when the id is not in the
\* by-id tree of the peer, -EPERM when the handle found is not the owner of
\* its node, and -EINPROGRESS when the timestamp of the node is not 0; when
\* it returns one of these, no timestamp, handle list or tree has changed
C18_DestroyErrors ==
    (h_last.kind = "destroy" /\ h_last.r # "0") =>
        /\ (~h_last.linked => h_last.r = "ENXIO")
        /\ (h_last.linked /\ h_last.h # NULL /\ ~h_last.is_owner
               => h_last.r = "EPERM")
        /\ (h_last.linked /\ h_last.h # NULL /\ h_last.is_owner /\ h_last.ts # 0
               => h_last.r = "EINPROGRESS")
        /\ (h_last.r \in {"ENXIO", "EPERM", "EINPROGRESS"} => h_last.unchanged)

\* A destruction of a node that is being destroyed has returned -EINPROGRESS
C18_Witness ==
    /\ h_last.kind = "destroy"
    /\ h_last.r = "EINPROGRESS"
    /\ h_last.is_owner
    /\ nd[h_last.n].timestamp # 0

\* A destruction asked for by a peer that does not own the node has returned
\* -EPERM
C18_WitnessPermission ==
    /\ h_last.kind = "destroy"
    /\ h_last.r = "EPERM"
    /\ hd[h_last.h].holder = h_last.p
    /\ hd[h_last.h].node # h_last.h

C23_Acquire ==
    /\ \A h \in Public :
          LET A == bus1_handle_acquire(World, h)
          IN  IF hd[h].node # h /\ hd[h].n_inflight = 0
              THEN A.r = NULL /\ A.W.hd[h].n_inflight = 0
              ELSE A.r = h /\ A.W.hd[h].n_inflight = hd[h].n_inflight + 1
    /\ (h_last.kind = "transfer" /\ h_last.h # NULL /\ h_last.n_inflight >= 0) =>
          IF ~h_last.is_owner /\ h_last.n_inflight = 0
          THEN h_last.got = NULL /\ h_last.n_after = 0
          ELSE h_last.got = h_last.h /\ h_last.n_after = h_last.n_inflight + 1

\* A send has acquired the owner handle of a node whose counter was 0
C23_Witness ==
    /\ h_last.kind = "transfer"
    /\ h_last.h # NULL
    /\ h_last.is_owner
    /\ h_last.n_inflight = 0
    /\ h_last.got = h_last.h
    /\ hd[h_last.h].n_inflight = 1

\* A public handle that is not an owner has a counter of 0, and the owner of
\* a node that was destroyed is still public: the states in which
\* bus1_handle_acquire() refuses, and in which it admits a dead owner
C23_WitnessRefused ==
    /\ \E h \in Public : hd[h].node # h /\ hd[h].n_inflight = 0
    /\ \E h \in Public : hd[h].node = h /\ hd[h].n_inflight = 0
                              /\ nd[h].timestamp # 0

\* ---- Attaching a handle to its node ----

\* The private handles: allocated, never attached
Private == {h \in Allocated : hd[h].n_inflight < 0 /\ hd[h].holder = NULL}

\* C24: while the owner of a node has no holder because the destruction of
\* the node was committed, bus1_handle_attach_unlocked() of a handle that is
\* not the owner fails and changes nothing, so the handle list of a node
\* whose destruction was committed is empty in every state; the attach of
\* the owner of a new node succeeds. This holds for every private handle of
\* every state and every holder, and for the attach that was just made
C24_AttachAfterDestruction ==
    /\ \A h \in Private, d \in Peers :
          LET A == bus1_handle_attach_unlocked(World, h, d)
          IN  IF hd[h].node # h
              THEN hd[hd[h].node].holder = NULL => (~A.r /\ A.W = World)
              ELSE /\ A.r
                   /\ A.W.hd[h].n_inflight = 1
                   /\ A.W.hd[h].holder = d
                   /\ A.W.nd[h].list_handles = Append(nd[h].list_handles, h)
    /\ \A n \in Allocated :
          (hd[n].node = n /\ nd[n].timestamp # 0 /\ nd[n].timestamp % 2 = 0)
              => nd[n].list_handles = <<>>
    /\ (h_last.kind = "attach" /\ ~h_last.is_owner /\ h_last.owner = NULL) =>
          /\ h_last.r = "false"
          /\ hd[h_last.h].st # "free" =>
                (hd[h_last.h].n_inflight = -1 /\ hd[h_last.h].holder = NULL)
          /\ \A n \in Allocated : h_last.h \notin Range(nd[n].list_handles)
          /\ \A q \in Peers : h_last.h \notin Installed(q)

\* The attach of a handle to a node whose destruction was committed has
\* failed
C24_Witness ==
    /\ h_last.kind = "attach"
    /\ h_last.r = "false"
    /\ ~h_last.is_owner
    /\ h_last.owner = NULL
    /\ h_last.ts = 2
    /\ h_last.n_inflight = -1

\* ---- The timestamp of a node ----

\* An even, non-zero timestamp: the destruction was committed
IsFinal(ts) == ts # 0 /\ ts % 2 = 0

\* The nodes whose destruction is in the loop of
\* bus1_handle_commit_destruction()
Draining == {ops[o].cn : o \in {x \in Ops : ops[x].pc = "commit_loop"}}

\* C25: the timestamp of a node is 0, then 1, then an even non-zero value
\* that never changes: no step takes it back to 0 or to 1 or changes a
\* final value, and it is 1 exactly while a call is in the loop of
\* bus1_handle_commit_destruction() for that node
C25_TimestampMonotonic ==
    [][/\ \A n \in Handles :
             (nd[n].ref > 0 /\ nd'[n].ref > 0) =>
                 /\ nd[n].timestamp = 0 =>
                       (nd'[n].timestamp \in {0, 1} \/ IsFinal(nd'[n].timestamp))
                 /\ nd[n].timestamp = 1 =>
                       (nd'[n].timestamp = 1 \/ IsFinal(nd'[n].timestamp))
                 /\ IsFinal(nd[n].timestamp) => nd'[n].timestamp = nd[n].timestamp
       /\ \A n \in Handles : nd[n].timestamp = 1 <=> n \in Draining
       /\ \A n \in Handles : nd'[n].timestamp = 1 <=> n \in Draining'
       /\ \A n \in Handles :
             nd'[n].timestamp \in {0, 1} \/ IsFinal(nd'[n].timestamp)]_vars

\* The destruction of a node went through the loop and was committed: the
\* handles taken from the node wait to be finalized
C25_Witness ==
    \E o \in Ops :
        /\ ops[o].kind = "destroy"
        /\ ops[o].pc = "finalize"
        /\ ops[o].list # <<>>
        /\ ops[o].h # NULL
        /\ nd[ops[o].h].ref > 0
        /\ nd[ops[o].h].timestamp = 2

\* ---- The id of a handle ----

\* The handles linked into both lookup trees of their holder
Linked ==
    {h \in Allocated :
        /\ hd[h].holder # NULL
        /\ h \in pr[hd[h].holder].map_handles_by_id
        /\ h \in pr[hd[h].holder].map_handles_by_node}

\* C26 as claimed: a public handle has an id if and only if it is linked
\* into the by-id and by-node trees of its holder
C26_IdIffInstalled_Claimed ==
    \A h \in Public : hd[h].id # BUS1_HANDLE_INVALID <=> h \in Linked

\* C26: a handle that is linked into a lookup tree is public and has an id;
\* a handle gets its id in the step that links it into the trees of its
\* holder, and keeps that id for as long as it is allocated, also after it
\* was unlinked: it has an id if and only if it was installed before
C26_IdIffInstalledBefore ==
    [][\A h \in Handles :
          /\ (\E q \in Peers : h \in Installed(q)') =>
                (hd'[h].id # BUS1_HANDLE_INVALID /\ hd'[h].n_inflight >= 0)
          /\ (hd[h].id = BUS1_HANDLE_INVALID /\ hd'[h].id # BUS1_HANDLE_INVALID)
                => h \in Linked'
          /\ (hd[h].id # BUS1_HANDLE_INVALID /\ hd'[h].st # "free")
                => hd'[h].id = hd[h].id]_vars

\* A public handle has an id and is in no lookup tree: it was installed and
\* then released by its holder, while another peer still has a handle of
\* the node
C26_Witness ==
    \E h \in Public :
        /\ hd[h].id # BUS1_HANDLE_INVALID
        /\ \A q \in Peers : h \notin Installed(q)
        /\ hd[h].n_inflight = 0
        /\ nd[hd[h].node].timestamp = 0

C28_WitnessOwner ==
    /\ h_last.kind = "release_owner"
    /\ h_last.n_inflight = 1
    /\ h_last.ts = 0
    /\ Range(h_last.list) = {h_last.h}
    /\ h_last.ts_after = 2

\* The last release of a handle left a node live that has another handle
C28_WitnessKept ==
    /\ h_last.kind \in {"release_owner", "release_holder"}
    /\ h_last.kind = "release_owner" => h_last.n_inflight = 1
    /\ h_last.ts = 0
    /\ h_last.owner # NULL
    /\ Range(h_last.list) \ {h_last.h} # {}
    /\ h_last.ts_after = 0

C29_WitnessNull ==
    /\ h_last.kind = "transfer"
    /\ ~HasAllocate(h_last.id)
    /\ h_last.got = NULL
    /\ h_last.r = "0"

\* An ALLOCATE id with other flags was refused
C29_WitnessInvalid ==
    /\ h_last.kind = "transfer"
    /\ h_last.r = "EINVAL"

\* A node was allocated
C29_WitnessAllocate ==
    /\ h_last.kind = "transfer"
    /\ HasAllocate(h_last.id)
    /\ h_last.r = "0"
    /\ h_last.n_new = 1

\* The handles that can be reached: through a lookup tree of a peer, the
\* list of a node, or the batch, list or tree of a call in progress
Reachable ==
    UNION {pr[p].map_handles_by_id \cup pr[p].map_handles_by_node : p \in Peers}
    \cup UNION {Range(nd[n].list_handles) : n \in Handles}
    \cup UNION {({ops[o].h, ops[o].t, ops[o].i, ops[o].rel} \ {NULL})
                  \cup Range(ops[o].list) \cup Range(ops[o].map) : o \in Ops}

\* C30: the storage of a node is there exactly as long as a handle on it,
\* owner or not, has a reference count above zero; the storage of an owner
\* handle is there exactly as long as that of its node; and a handle that
\* can be reached has its storage, and so has its node; no reference is
\* taken or dropped on a handle whose count is zero
C30_MemorySafe ==
    /\ \A n \in Handles :
          /\ nd[n].ref = Cardinality({h \in Handles :
                                         hd[h].st = "live" /\ hd[h].node = n})
          /\ nd[n].ref > 0 <=> (hd[n].st # "free" /\ hd[n].node = n)
    /\ \A h \in Handles :
          hd[h].st # "free" => nd[hd[h].node].ref > 0
    /\ \A h \in Reachable : hd[h].st # "free"
    /\ warns \cap {"ref_dead", "unref_dead"} = {}

\* An owner handle has dropped its last reference and stays in memory with
\* its node, which another handle keeps
C30_Witness ==
    \E n \in Handles :
       /\ hd[n].st = "dead"
       /\ nd[n].ref > 0
       /\ \E h \in Handles : h # n /\ hd[h].st = "live" /\ hd[h].node = n

\* C31: after bus1_handle_inflight_instantiate, the n_new of the inflight
\* context is the number of fresh private handles it created for the
\* destination, and n_new_local the number of those whose node the sender
\* owns (a node the transfer allocated, or one whose owner the sender holds)
C31_InstantiateCounts ==
    \A o \in Ops :
       ops[o].pc = "inflight_install" =>
          LET fresh == ops[o].fresh /\ ops[o].i # NULL
                          /\ ~bus1_handle_is_public(World, ops[o].i)
              local == /\ fresh
                       /\ \/ ops[o].t_n_new > 0
                          \/ hd[hd[ops[o].i].node].holder = ops[o].p
          IN  /\ ops[o].i_n_new = (IF fresh THEN 1 ELSE 0)
              /\ ops[o].i_n_new_local = (IF local THEN 1 ELSE 0)

\* C32: the step of bus1_handle_inflight_install that runs the critical
\* section of the sender attaches and installs the owner handle of a node
\* the transfer allocated if the transfer's n_new is above 0, which is so
\* for the first destination only, and leaves n_new at 0; for every later
\* destination it leaves that handle, the sender's trees and the sender's
\* id counter as they are
C32_InstallOwnerOnce ==
    [][\A o \in Ops :
          (/\ ops[o].pc = "inflight_install"
           /\ ops'[o].pc # "inflight_install"
           /\ ops[o].alloc) =>
             LET t == ops[o].t
                 p == ops[o].p
             IN  IF ops[o].n_dst = 0
                 THEN /\ ops[o].t_n_new = 1
                      /\ ~bus1_handle_is_public(World, t)
                      /\ hd'[t].n_inflight = 1
                      /\ hd'[t].holder = p
                      /\ hd'[t].id = NextId(pr[p].handle_ids)
                      /\ pr'[p].handle_ids = pr[p].handle_ids + 1
                      /\ t \in pr'[p].map_handles_by_id
                      /\ t \in pr'[p].map_handles_by_node
                      /\ t \in Range(nd'[t].list_handles)
                      /\ ops'[o].t_n_new = 0
                 ELSE /\ ops[o].t_n_new = 0
                      /\ ops'[o].t_n_new = 0
                      /\ hd'[t] = hd[t]
                      /\ nd'[t] = nd[t]
                      /\ pr'[p] = pr[p]]_vars

\* The install for the second destination of a send that allocated a node
\* is done, and the sender holds the owner handle of the node
C32_Witness ==
    \E o \in Ops :
       /\ ops[o].alloc
       /\ ops[o].n_dst = 1
       /\ ops[o].pc = "inflight_commit"
       /\ ops[o].t_n_new = 0
       /\ hd[ops[o].t].holder = ops[o].p
       /\ ops[o].t \in pr[ops[o].p].map_handles_by_id

\* C33: when the node of an attached handle that is not its owner has been
\* destroyed (timestamp not 0) before the handle is installed,
\* bus1_handle_install_unlocked returns NULL, gives the handle no id and
\* leaves the lookup trees and the id counter of every peer as they are,
\* and the caller drops its slot
C33_InstallAfterDestroy ==
    [][\A o \in Ops :
          (/\ ops[o].pc = "import_install"
           /\ ops'[o].pc # "import_install"
           /\ hd[ops[o].h].node # ops[o].h
           /\ nd[hd[ops[o].h].node].timestamp # 0) =>
             /\ ops'[o].h = NULL
             /\ hd'[ops[o].h].id = BUS1_HANDLE_INVALID
             /\ pr' = pr]_vars

\* The calls that are inside bus1_handle_commit_destruction() of node n,
\* with the lock of the owner dropped
Committing(n) == {o \in Ops : ops[o].pc = "commit_loop" /\ ops[o].cn = n}

\* C34: destruction is committed at most once per node: the timestamp is 1
\* exactly while one call, and never more than one, is inside
\* commit_destruction with the owner's lock dropped; commit_destruction is
\* never entered on a node whose timestamp is not 0; and a destroy_by_id
\* of the owner that finds the timestamp not 0 returns EINPROGRESS, one that
\* finds no handle returns ENXIO, and both change nothing (the return of 0
\* is that of the call that committed, after its finalize_destruction)
C34_CommitOnce ==
    /\ \A n \in Handles :
          /\ Cardinality(Committing(n)) <= 1
          /\ Committing(n) # {} => hd[n].st # "free" /\ nd[n].timestamp = 1
          /\ (hd[n].st # "free" /\ hd[n].node = n /\ nd[n].timestamp = 1)
                => Committing(n) # {}
    /\ "commit_twice" \notin warns
    /\ (h_last.kind = "destroy" /\ h_last.h = NULL) =>
          h_last.r = "ENXIO" /\ h_last.unchanged
    /\ (/\ h_last.kind = "destroy" /\ h_last.is_owner /\ h_last.ts # 0
        /\ h_last.r # "0") =>
          h_last.r = "EINPROGRESS" /\ h_last.unchanged

\* A destroy_by_id found the node inside the commit_destruction of another
\* call, which has dropped the owner's lock, and returned EINPROGRESS
C34_Witness ==
    /\ h_last.kind = "destroy"
    /\ h_last.r = "EINPROGRESS"
    /\ h_last.ts = 1
    /\ Committing(h_last.n) # {}

Flushed(h) ==
    hd[h].st # "free" /\ ~hd[h].rb_node /\ hd[h].id # BUS1_HANDLE_INVALID

\* The flushed handles that bus1_handle_finish_all() has not visited yet
FlushPending == UNION {Range(ops[o].map) : o \in {x \in Ops : ops[x].kind = "flush"}}

\* C37: bus1_handle_flush_all() empties both lookup trees of the peer in one
\* step and marks every handle that was in them; a flushed handle is in no
\* tree again, no later call erases it from a tree, the reference the tree
\* held on it is still there while bus1_handle_finish_all() has not visited
\* it, is never dropped at count 0, and is gone once every call has returned
C37_FlushDisconnects ==
    /\ [](/\ warns \cap {"rb_erase_unlinked", "unref_dead"} = {}
          /\ \A h \in Handles : Flushed(h) =>
                /\ \A p \in Peers : h \notin pr[p].map_handles_by_id
                                    /\ h \notin pr[p].map_handles_by_node
                                    /\ pr[p].rb_root # h
                /\ Running = {} => hd[h].ref <= 1
          /\ \A h \in FlushPending : Flushed(h) /\ hd[h].ref >= 1)
    /\ [][\A o \in Ops :
             (ops[o].kind # "flush" /\ ops'[o].kind = "flush") =>
                LET p == ops'[o].p
                IN  /\ pr'[p].map_handles_by_id = {}
                    /\ pr'[p].map_handles_by_node = {}
                    /\ \A h \in pr[p].map_handles_by_id :
                          /\ ~hd'[h].rb_node
                          /\ hd'[h].ref = hd[h].ref
                          /\ h \in Range(ops'[o].map)
                    /\ \A q \in Peers \ {p} : pr'[q] = pr[q]]_vars

\* C37 happens: a flushed handle lost its last inflight reference or was
\* destroyed by another call while bus1_handle_finish_all() had not visited
\* it, and its peer has installed a handle in its new trees
C37_Witness ==
    \E h \in FlushPending : \E p \in Peers :
       /\ hd[h].holder = NULL
       /\ pr[p].map_handles_by_id # {}
       /\ \E o \in Ops : ops[o].kind = "flush" /\ ops[o].p = p
                         /\ h \in Range(ops[o].map)

\* C38: every handle pinned in a transfer or inflight context is given up
\* exactly once. After bus1_handle_inflight_commit() n_handles is 0; a
\* destroy of a context that was committed or destroyed before, or whose
\* entry is NULL, changes no handle, node or tree and starts no release; a
\* destroy of a context that still pins a public handle starts exactly the
\* release of that handle; one that pins a private handle drops one object
\* reference of it and touches nothing but that handle and its node. No release finds n_inflight below 1,
\* no reference is dropped at count 0, and when every call
\* has returned a public handle has one inflight reference if it has user
\* references and none otherwise.
C38_PinnedGivenUpOnce ==
    /\ [](/\ warns \cap {"release_owner_inflight", "release_holder_inflight",
                          "unref_dead"} = {}
          /\ \A o \in Ops :
                (ops[o].pc = "transfer_destroy" /\ ops[o].r = "none")
                => ops[o].i_n_handles = 0
          /\ Running = {} =>
                \A h \in Handles :
                   (hd[h].st # "free" /\ hd[h].n_inflight >= 0) =>
                      hd[h].n_inflight = (IF hd[h].n_user > 0 THEN 1 ELSE 0))
    /\ [][\A o \in Ops :
             Len(ops'[o].destroys) = Len(ops[o].destroys) + 1 =>
                LET op == ops[o]
                    ctx == ops'[o].destroys[Len(ops'[o].destroys)]
                    h == IF ctx = "inflight" THEN op.i ELSE op.t
                    n_handles == IF ctx = "inflight" THEN op.i_n_handles
                                 ELSE op.t_n_handles
                    same == hd' = hd /\ nd' = nd /\ pr' = pr
                IN  IF ctx \in Range(op.destroys) \/ n_handles = 0 \/ h = NULL
                    THEN same /\ ops'[o].pc = "transfer_destroy"
                    ELSE IF hd[h].n_inflight >= 0
                    THEN same /\ ops'[o].pc = "release" /\ ops'[o].rel = h
                    ELSE /\ ops'[o].pc = "transfer_destroy"
                         /\ pr' = pr
                         /\ \A n \in Handles \ {hd[h].node} : nd'[n] = nd[n]
                         /\ \A g \in Handles \ {h, hd[h].node} : hd'[g] = hd[g]
                         /\ IF hd[h].ref > 1
                            THEN hd'[h] = [hd[h] EXCEPT !.ref = @ - 1]
                            ELSE hd'[h].st # "live"]_vars

\* C38 happens: a send was given up with a public handle pinned in its
\* inflight context, bus1_handle_inflight_destroy() released it and was then
\* called a second time
C38_Witness ==
    \E o \in Ops :
       /\ ops[o].pc = "transfer_destroy" /\ ops[o].r = "EFAULT"
       /\ ops[o].destroys = <<"inflight", "inflight">>
       /\ ops[o].i # NULL /\ ops[o].i_n_entries = 0
       /\ hd[ops[o].i].st # "free" /\ hd[ops[o].i].n_inflight >= 0

\* C38 happens: bus1_handle_transfer_destroy() was called again on a context
\* whose handle the first call had released
C38_WitnessTransfer ==
    \E o \in Ops :
       /\ ops[o].pc = "transfer_destroy"
       /\ ops[o].destroys = <<"transfer", "transfer">>
       /\ ops[o].t # NULL

\* C38 happens: bus1_handle_inflight_destroy() after a commit
C38_WitnessCommitted ==
    \E o \in Ops :
       /\ ops[o].pc = "transfer_destroy" /\ ops[o].r = "none"
       /\ ops[o].destroys = <<"inflight">>
       /\ h_last.kind # "commit"

\* C38 happens: a context is destroyed while its handle is still private
C38_WitnessPrivate ==
    \E o \in Ops :
       /\ ops[o].pc = "transfer_destroy"
       /\ ops[o].destroys # <<>>
       /\ ops[o].t # NULL /\ ops[o].alloc
       /\ hd[ops[o].t].st = "free"

\* C39: in every interleaving of bus1_user_ref_by_uid() and bus1_user_unref(),
\* the callers that hold a user of the same uid at the same time hold the
\* same object, the idr holds at most one entry per uid, and the object a
\* caller holds is allocated, counts every reference to it and is the entry
\* of its uid in the idr, also after the free of a dying object it replaced
C39_OneUserPerUid ==
    /\ \A t1, t2 \in Threads :
          (/\ callers[t1].held # NULL /\ callers[t2].held # NULL
           /\ callers[t1].uid = callers[t2].uid)
          => callers[t1].held = callers[t2].held
    /\ \A e1, e2 \in bus1_user_idr : e1[1] = e2[1] => e1 = e2
    /\ \A t \in Threads :
          callers[t].held # NULL =>
             /\ users[callers[t].held].live
             /\ users[callers[t].held].uid = callers[t].uid
             /\ <<callers[t].uid, callers[t].held>> \in bus1_user_idr
    /\ \A u \in UserObjs :
          users[u].live =>
             users[u].ref =
                Cardinality({t \in Threads : callers[t].held = u})
                + Cardinality({t \in Threads : callers[t].ret = u})
                + Cardinality({t \in Threads : callers[t].user = u
                                  /\ callers[t].pc \in {"insert", "unref"}})

\* C39 happens: an object whose count had reached 0 was replaced in the idr
\* while its bus1_user_free() was waiting for bus1_user_lock, and a caller
\* holds the replacement
C39_Witness ==
    \E t, d \in Threads :
       /\ callers[d].pc = "free_locked"
       /\ users[callers[d].user].uid = INVALID_UID
       /\ callers[t].held # NULL
       /\ callers[t].held # callers[d].user
       /\ callers[t].uid = callers[d].uid

\* C39 happens: the replaced object has been freed and two callers hold the
\* replacement
C39_WitnessShared ==
    \E t, d \in Threads :
       /\ t # d
       /\ callers[t].held # NULL /\ callers[t].held = callers[d].held
       /\ users[callers[t].held].ref = 2
       /\ \E u \in UserObjs : u < callers[t].held /\ ~users[u].live

\* The charge that the successful bus1_user_quota_charge() just made, when
\* the step taken now discharges or commits it
LastCharge == u_charges[Len(u_charges)]

UndoesLastCharge(kind) ==
    /\ u_last.kind = "charge" /\ u_last.ok
    /\ u_last'.kind = kind
    /\ u_charges' = SubSeq(u_charges, 1, Len(u_charges) - 1)

\* C40: bus1_user_quota_discharge() with the arguments of a successful
\* bus1_user_quota_charge() brings the global counters of the user, the
\* counters of the peer and the statistics of the user on that peer back to
\* what the charge found; bus1_user_quota_commit() brings the statistics
\* back, gives the fds back to the user, and leaves the counters of the peer
\* and the global messages and handles of the user as the charge left them.
\* Neither touches another peer or user.
C40_DischargeReverts ==
    [][/\ UndoesLastCharge("discharge") =>
             LET ch == LastCharge
             IN  /\ \A i \in DOMAIN u_last.ones :
                       LET x == u_last.ones[i]
                       IN  /\ u_local'[ch.p][x.res] = x.local
                           /\ u_stats'[ch.p][ch.u][x.res] = x.share
                           /\ x.has_global => u_global'[ch.u][x.res] = x.global
                 /\ \A p \in QuotaPeers \ {ch.p} :
                       u_local'[p] = u_local[p] /\ u_stats'[p] = u_stats[p]
                 /\ \A u \in Users \ {ch.u} :
                       /\ u_global'[u] = u_global[u]
                       /\ u_stats'[ch.p][u] = u_stats[ch.p][u]
       /\ UndoesLastCharge("commit") =>
             LET ch == LastCharge
             IN  /\ \A i \in DOMAIN u_last.ones :
                       LET x == u_last.ones[i]
                       IN  /\ u_local'[ch.p][x.res] = x.local - x.charge
                           /\ u_stats'[ch.p][ch.u][x.res] = x.share
                           /\ x.has_global =>
                                 u_global'[ch.u][x.res] =
                                    IF x.res = "fds" THEN x.global
                                    ELSE x.global - x.charge
                 /\ u_local' = u_local
                 /\ \A p \in QuotaPeers \ {ch.p} : u_stats'[p] = u_stats[p]
                 /\ \A u \in Users \ {ch.u} :
                       /\ u_global'[u] = u_global[u]
                       /\ u_stats'[ch.p][u] = u_stats[ch.p][u]]_vars

\* C40 happens: a charge for a message with handles and fds has just been
\* made on a peer that carries an earlier charge, and can be discharged or
\* committed next
C40_WitnessCharged ==
    /\ u_last.kind = "charge" /\ u_last.ok
    /\ Len(u_last.ones) = 4
    /\ Len(u_charges) = 2
    /\ LastCharge.c["handles"] > 0 /\ LastCharge.c["fds"] > 0
    /\ u_charges[1].p = LastCharge.p
    /\ ENABLED bus1_user_quota_discharge(2)
    /\ ENABLED bus1_user_quota_commit(2)

\* C40 happens: a charge was discharged while another charge of the same
\* user on the same peer, with handles and fds, stays: the counters are
\* those of the charge that stays
C40_Witness ==
    /\ u_last.kind = "discharge"
    /\ Len(u_charges) = 1
    /\ LET ch == u_charges[1]
       IN  /\ ch.c["handles"] > 0 /\ ch.c["fds"] > 0
           /\ \A res \in Resources :
                 /\ u_local[ch.p][res] = MaxBudget - ch.c[res]
                 /\ u_stats[ch.p][ch.u][res] = ch.c[res]
           /\ \A res \in GlobalResources :
                 u_global[ch.u][res] = MaxBudget - ch.c[res]

\* C40 happens: a charge with handles and fds was committed and nothing else
\* is charged: the statistics are 0 again, the user has its fds back, the
\* peer and the global messages and handles stay charged
C40_WitnessCommit ==
    /\ u_last.kind = "commit"
    /\ u_charges = <<>>
    /\ \E p \in QuotaPeers, u \in Users :
          /\ u_stats[p][u] = NewStats
          /\ u_global[u]["fds"] = MaxBudget
          /\ u_global[u]["handles"] < MaxBudget
          /\ u_global[u]["messages"] < MaxBudget
          /\ u_local[p]["fds"] < MaxBudget
          /\ u_local[p]["handles"] < MaxBudget

\* The peer locks thread t holds
Held(t) == {p \in Peers : lock[p] = t}

\* Thread t is at a mutex_lock() of a lock that is held: it sleeps
Waits(t) ==
    /\ thr[t].todo # <<>>
    /\ Head(thr[t].todo).a = "lock"
    /\ lock[Head(thr[t].todo).p] # NULL

\* C27: peer locks never deadlock: a thread that is about to take a peer
\* lock holds no peer lock (so the last release of a non-owner handle has
\* dropped the holder's lock before it takes the owner's, and
\* commit_destruction takes the owner's lock again only after it dropped
\* it), a thread unlocks only a lock it holds, and whenever a thread is
\* inside a call, some thread inside a call can take its next step
C27_NoDeadlock ==
    /\ \A t \in Threads :
          thr[t].todo # <<>> =>
             LET e == Head(thr[t].todo)
             IN  IF e.a = "lock" THEN Held(t) = {} ELSE lock[e.p] = t
    /\ (\E t \in Threads : thr[t].todo # <<>>) =>
          \E t \in Threads : thr[t].todo # <<>> /\ ~Waits(t)

\* A thread in bus1_handle_release_holder() has left the critical section
\* of the holder and sleeps on the lock of the node owner, which another
\* thread holds while that one is about to unlock and lock it again
C27_Witness ==
    \E t \in Threads, u \in Threads :
       /\ t # u
       /\ Waits(t)
       /\ Held(t) = {}
       /\ lock[Head(thr[t].todo).p] = u
       /\ Len(thr[t].todo) >= 2
       /\ Len(thr[u].todo) >= 3
       /\ thr[u].todo[1].a = "unlock"
       /\ thr[u].todo[2].a = "lock"

(* ------------------------------------------------------------------ *)
(* Claims about the quota                                               *)
(* ------------------------------------------------------------------ *)

\* The calls of bus1_user_quota_charge_one() the last charge made
ChargeOnes == {u_last.ones[i] : i \in DOMAIN u_last.ones}

\* C20: charging c units of a resource succeeds if and only if the
\* peer-local remaining amount is at least share + 2c and, for messages,
\* handles and fds, the user's global remaining amount is at least
\* share + 2c; on success the global remaining is decreased by exactly c, so
\* afterwards it is at least share + c; no global or local counter ever
\* becomes negative.
C20_QuotaRule ==
    /\ \A x \in ChargeOnes :
          /\ x.ok <=> /\ x.local >= x.share + 2 * x.charge
                      /\ x.has_global => x.global >= x.share + 2 * x.charge
          /\ (x.ok /\ x.has_global) =>
                /\ x.after = x.global - x.charge
                /\ x.after >= x.share + x.charge
          /\ ~x.ok => x.after = x.global
    /\ \A u \in Users, res \in GlobalResources : u_global[u][res] >= 0
    /\ \A p \in QuotaPeers, res \in Resources :
          /\ u_local[p][res] >= 0
          /\ \A u \in Users : u_stats[p][u][res] >= 0

\* A charge of handles that the peer would admit is refused because the
\* user's global budget is too low, after a charge that was admitted
C20_Witness ==
    /\ u_last.kind = "charge"
    /\ \E x \in ChargeOnes :
          /\ x.res = "handles" /\ x.charge > 0 /\ ~x.ok
          /\ x.local >= x.share + 2 * x.charge
          /\ x.global < x.share + 2 * x.charge
    /\ \E x \in ChargeOnes : x.res = "messages" /\ x.ok /\ x.after = x.global - 1
    /\ u_charges # <<>>

\* C21: when bus1_user_quota_charge() returns -EDQUOT, the global counters
\* of every user, the remaining budgets of every peer and the statistics
\* of every user on every peer are what they were before the call
C21_NoPartialAccounting ==
    [][(u_last'.kind = "charge" /\ ~u_last'.ok)
         => (u_global' = u_global /\ u_local' = u_local /\ u_stats' = u_stats)]_vars

\* A charge has failed on the file descriptors, after the message and the
\* handles had been taken from the global counters of the user
C21_Witness ==
    /\ u_last.kind = "charge"
    /\ ~u_last.ok
    /\ Len(u_last.ones) = 4
    /\ u_last.ones[3].charge > 0
    /\ u_last.ones[3].after < u_last.ones[3].global

====
